---- MODULE Spec2Model ----
(***************************************************************************)
(* A model of memega: the LGP register machine (LgpVm), its dead-code      *)
(* eliminator (LgpOptimizer), the assembler / disassembler, and the        *)
(* generational loop of the Evolver.                                       *)
(*                                                                         *)
(* f64 values are modelled as exact rationals plus the three non-finite    *)
(* values NaN, +inf and -inf.  Rounding, overflow of finite arithmetic to  *)
(* infinity and the sign of zero are not modelled: a non-finite result     *)
(* arises from a division by zero or from a non-finite operand.            *)
(***************************************************************************)
EXTENDS Integers, Sequences, FiniteSets, TLC

VARIABLES vm, asmst, ev

vars == <<vm, asmst, ev>>

(***************************************************************************)
(* Bounds of the model.                                                    *)
(***************************************************************************)
\* Longest program the VM specification enumerates.
MaxCode == 3

(***************************************************************************)
(* f64                                                                     *)
(***************************************************************************)
Abs(x) == IF x < 0 THEN -x ELSE x

RECURSIVE Gcd(_, _)
Gcd(a, b) == IF b = 0 THEN a ELSE Gcd(b, a % b)

\* The finite value n/d in lowest terms with a positive denominator.
Rat(n, d) ==
  LET s == IF d < 0 THEN -1 ELSE 1
      g == Gcd(Abs(n), Abs(d))
  IN  [k |-> "fin", n |-> (s * n) \div g, d |-> (s * d) \div g]

F(n) == Rat(n, 1)
NaN == [k |-> "nan", n |-> 0, d |-> 1]
PInf == [k |-> "inf", n |-> 1, d |-> 1]
NInf == [k |-> "inf", n |-> -1, d |-> 1]

is_finite(v) == v.k = "fin"
is_nan(v) == v.k = "nan"

\* The sign of a value other than NaN: -1, 0 or 1.
Sgn(v) == IF v.n < 0 THEN -1 ELSE IF v.n > 0 THEN 1 ELSE 0

InfOf(s) == IF s < 0 THEN NInf ELSE PInf

FNeg(a) ==
  CASE a.k = "fin" -> Rat(-a.n, a.d)
    [] a.k = "inf" -> InfOf(-a.n)
    [] OTHER -> NaN

FAbs(a) ==
  CASE a.k = "fin" -> Rat(Abs(a.n), a.d)
    [] a.k = "inf" -> PInf
    [] OTHER -> NaN

FAdd(a, b) ==
  CASE is_nan(a) \/ is_nan(b) -> NaN
    [] a.k = "fin" /\ b.k = "fin" ->
         LET g == Gcd(a.d, b.d)
         IN  Rat(a.n * (b.d \div g) + b.n * (a.d \div g), (a.d \div g) * b.d)
    [] a.k = "inf" /\ b.k = "inf" -> IF a.n = b.n THEN a ELSE NaN
    [] a.k = "inf" -> a
    [] OTHER -> b

FSub(a, b) == FAdd(a, FNeg(b))

FMul(a, b) ==
  CASE is_nan(a) \/ is_nan(b) -> NaN
    [] a.k = "fin" /\ b.k = "fin" -> Rat(a.n * b.n, a.d * b.d)
    [] Sgn(a) = 0 \/ Sgn(b) = 0 -> NaN
    [] OTHER -> InfOf(Sgn(a) * Sgn(b))

FDiv(a, b) ==
  CASE is_nan(a) \/ is_nan(b) -> NaN
    [] a.k = "fin" /\ b.k = "fin" ->
         IF b.n # 0 THEN Rat(a.n * b.d, a.d * b.n)
         ELSE IF a.n = 0 THEN NaN ELSE InfOf(Sgn(a))
    [] a.k = "fin" -> F(0)
    [] b.k = "inf" -> NaN
    [] OTHER -> InfOf(a.n * (IF Sgn(b) < 0 THEN -1 ELSE 1))

\* a < b on f64: false when either side is NaN.
FLt(a, b) ==
  CASE is_nan(a) \/ is_nan(b) -> FALSE
    [] a.k = "fin" /\ b.k = "fin" -> a.n * b.d < b.n * a.d
    [] a.k = "inf" /\ b.k = "inf" -> a.n < b.n
    [] a.k = "inf" -> a.n < 0
    [] OTHER -> b.n > 0

\* a >= b on f64: false when either side is NaN.
FGe(a, b) == ~is_nan(a) /\ ~is_nan(b) /\ ~FLt(a, b)

\* a <= b on f64: false when either side is NaN.
FLe(a, b) == FGe(b, a)

(***************************************************************************)
(* Opcode, Operands, Op                                                    *)
(***************************************************************************)
Opcodes ==
  {"Add", "Sub", "Mul", "Div", "Abs", "Neg", "Pow", "Ln", "Sin", "Cos",
   "Load", "Copy", "IfLt"}

\* The operand shape an opcode declares.
OperandShape(code) ==
  CASE code \in {"Add", "Sub", "Mul", "Div", "Pow"} -> "Reg3Assign"
    [] code \in {"Abs", "Neg", "Ln", "Sin", "Cos", "Copy"} -> "Reg2Assign"
    [] code = "Load" -> "ImmAssign"
    [] OTHER -> "Reg2Cmp"

is_branch(code) == code = "IfLt"

\* An Op: the opcode and its operands.  The fields a shape does not have
\* are zero.
Op3(code, ri, ra, rb) == [code |-> code, ri |-> ri, ra |-> ra, rb |-> rb, imm |-> F(0)]
Op2(code, ri, ra) == [code |-> code, ri |-> ri, ra |-> ra, rb |-> 0, imm |-> F(0)]
OpImm(code, ri, imm) == [code |-> code, ri |-> ri, ra |-> 0, rb |-> 0, imm |-> imm]
OpCmp(code, ra, rb) == [code |-> code, ri |-> 0, ra |-> ra, rb |-> rb, imm |-> F(0)]

\* Operands::output_regs, in order.
output_regs(op) ==
  IF OperandShape(op.code) = "Reg2Cmp" THEN <<>> ELSE <<op.ri>>

\* Operands::input_regs, in order.
input_regs(op) ==
  CASE OperandShape(op.code) = "Reg3Assign" -> <<op.ra, op.rb>>
    [] OperandShape(op.code) = "Reg2Assign" -> <<op.ra>>
    [] OperandShape(op.code) = "Reg2Cmp" -> <<op.ra, op.rb>>
    [] OTHER -> <<>>

SeqToSet(s) == {s[i] : i \in DOMAIN s}

(***************************************************************************)
(* LgpVm                                                                   *)
(***************************************************************************)
\* LgpVm::new: pc 0 and the memory laid out as registers then constants.
LgpVmNew(code, mem, num_reg) ==
  [pc |-> 0, mem |-> mem, code |-> code, num_reg |-> num_reg,
   finished |-> FALSE, panicked |-> FALSE, steps |-> 0, mem0 |-> mem]

\* is_constant with the comparison off by one.
is_constant_gt(v, idx) == idx > v.num_reg

is_constant(v, idx) == idx >= v.num_reg

InMem(v, idx) == idx \in DOMAIN v.mem

\* The skip of a false IfLt that stops after one instruction, branch or not.
SkipPc_one(code, pc) == IF pc >= Len(code) THEN pc ELSE pc + 1

\* The pc after the fetch loop of a false IfLt: past every branch that
\* follows and past the first non-branch instruction, or at the end.
RECURSIVE SkipPc(_, _)
SkipPc(code, pc) ==
  IF pc >= Len(code) THEN pc
  ELSE IF is_branch(code[pc + 1].code) THEN SkipPc(code, pc + 1)
  ELSE pc + 1

\* The value an arithmetic opcode computes from its inputs.
Compute(code, a, b) ==
  CASE code = "Add" -> FAdd(a, b)
    [] code = "Sub" -> FSub(a, b)
    [] code = "Mul" -> FMul(a, b)
    [] code = "Div" -> FDiv(a, b)
    [] code = "Abs" -> FAbs(a)
    [] code = "Neg" -> FNeg(a)
    [] OTHER -> a

\* Opcodes whose write is dropped when the result is not finite.
ChecksFinite(code) ==
  code \in {"Add", "Sub", "Mul", "Div", "Pow", "Ln", "Sin", "Cos"}

\* Opcodes the model computes exactly.
Computable == Opcodes \ {"Pow", "Ln", "Sin", "Cos"}

\* LgpVm::step on the fetched instruction op, pc already advanced.
Exec(v, op) ==
  LET shape == OperandShape(op.code)
      reads == IF ChecksFinite(op.code) THEN SeqToSet(input_regs(op))
               ELSE IF shape = "Reg2Assign" /\ ~is_constant(v, op.ri) THEN {op.ra}
               ELSE IF shape = "Reg2Cmp" THEN {op.ra, op.rb}
               ELSE {}
  IN  IF \E r \in reads : ~InMem(v, r)
      THEN [v EXCEPT !.panicked = TRUE, !.finished = TRUE]
      ELSE CASE shape = "Reg3Assign" ->
                  LET val == Compute(op.code, v.mem[op.ra], v.mem[op.rb])
                  IN  IF is_finite(val) /\ ~is_constant(v, op.ri)
                      THEN [v EXCEPT !.mem[op.ri] = val]
                      ELSE v
             [] shape = "Reg2Assign" ->
                  IF is_constant(v, op.ri) THEN v
                  ELSE LET val == Compute(op.code, v.mem[op.ra], v.mem[op.ra])
                       IN  IF ChecksFinite(op.code) /\ ~is_finite(val) THEN v
                           ELSE [v EXCEPT !.mem[op.ri] = val]
             [] shape = "ImmAssign" ->
                  IF is_constant(v, op.ri) THEN v
                  ELSE [v EXCEPT !.mem[op.ri] = op.imm]
             [] OTHER ->
                  IF FGe(v.mem[op.ra], v.mem[op.rb])
                  THEN [v EXCEPT !.pc = SkipPc(v.code, v.pc)]
                  ELSE v

\* A fetch that leaves pc where it is.
fetch_stay(v) == v

\* LgpVm::fetch: the instruction at pc, and pc advanced by one.
fetch(v) == [v EXCEPT !.pc = v.pc + 1]

\* LgpVm::step: returns true (finished) when there is nothing to fetch.
step(v) ==
  IF v.pc >= Len(v.code)
  THEN [v EXCEPT !.finished = TRUE]
  ELSE Exec([fetch(v) EXCEPT !.steps = v.steps + 1], v.code[v.pc + 1])

\* LgpVm::run: step until finished.
RECURSIVE run(_)
run(v) == IF v.finished THEN v ELSE run(step(v))

(***************************************************************************)
(* LgpOptimizer                                                            *)
(***************************************************************************)
\* The length of the eff_regs array: u8::MAX.
EffRegsLen == 255

Reverse(s) == [i \in 1..Len(s) |-> s[Len(s) + 1 - i]]

\* An iteration of the reverse loop that keeps every instruction.
OptimizeOp_keep(st, op) ==
  [eff_regs |-> (st.eff_regs \ SeqToSet(output_regs(op))) \cup SeqToSet(input_regs(op)),
   eff_code |-> Append(st.eff_code, op),
   next_effective |-> TRUE,
   next_output_regs |-> output_regs(op),
   panicked |-> st.panicked]

\* An iteration of the reverse loop that leaves a written register
\* effective.
OptimizeOp_noclear(st, op) ==
  LET outs == SeqToSet(output_regs(op))
      branch == st.next_effective /\ is_branch(op.code)
      effective == outs \cap st.eff_regs # {} \/ branch
  IN  [eff_regs |-> IF effective THEN st.eff_regs \cup SeqToSet(input_regs(op))
                    ELSE st.eff_regs,
       eff_code |-> IF effective THEN Append(st.eff_code, op) ELSE st.eff_code,
       next_effective |-> effective,
       next_output_regs |-> output_regs(op),
       panicked |-> st.panicked]

\* An iteration of the reverse loop in which a kept branch does not put the
\* registers written by the next instruction back.
OptimizeOp_norestore(st, op) ==
  LET outs == SeqToSet(output_regs(op))
      hit == outs \cap st.eff_regs
      effective == hit # {} \/ (st.next_effective /\ is_branch(op.code))
  IN  [eff_regs |-> IF effective THEN (st.eff_regs \ hit) \cup SeqToSet(input_regs(op))
                    ELSE st.eff_regs,
       eff_code |-> IF effective THEN Append(st.eff_code, op) ELSE st.eff_code,
       next_effective |-> effective,
       next_output_regs |-> output_regs(op),
       panicked |-> st.panicked]

\* One iteration of the reverse loop of LgpOptimizer::optimize, on op.
OptimizeOp(st, op) ==
  LET outs == SeqToSet(output_regs(op))
      hit == outs \cap st.eff_regs
      eff1 == st.eff_regs \ hit
      branch == st.next_effective /\ is_branch(op.code)
      effective == hit # {} \/ branch
      eff2 == IF branch THEN eff1 \cup SeqToSet(st.next_output_regs) ELSE eff1
      eff3 == IF effective THEN eff2 \cup SeqToSet(input_regs(op)) ELSE eff2
      indexed == outs \cup (IF branch THEN SeqToSet(st.next_output_regs) ELSE {})
                      \cup (IF effective THEN SeqToSet(input_regs(op)) ELSE {})
  IN  IF st.panicked \/ \E r \in indexed : r >= EffRegsLen
      THEN [st EXCEPT !.panicked = TRUE]
      ELSE [eff_regs |-> eff3,
            eff_code |-> IF effective THEN Append(st.eff_code, op) ELSE st.eff_code,
            next_effective |-> effective,
            next_output_regs |-> output_regs(op),
            panicked |-> FALSE]

\* The loop over code[1..i] in reverse, from the state st.
RECURSIVE OptimizeFrom(_, _, _)
OptimizeFrom(code, i, st) ==
  IF i = 0 THEN st ELSE OptimizeFrom(code, i - 1, OptimizeOp(st, code[i]))

\* The locals of optimize before its loop: eff_regs holds the output
\* registers.
OptimizeInit(out) ==
  [eff_regs |-> out, eff_code |-> <<>>, next_effective |-> FALSE,
   next_output_regs |-> <<>>,
   panicked |-> \E r \in out : r >= EffRegsLen]

\* LgpOptimizer::new(code, output_regs).optimize(): the kept instructions in
\* program order, and whether an index into eff_regs was out of bounds.
optimize(code, out) ==
  LET st == OptimizeFrom(code, Len(code), OptimizeInit(out))
  IN  [panicked |-> st.panicked,
       code |-> IF st.panicked THEN <<>> ELSE Reverse(st.eff_code)]

(***************************************************************************)
(* The VM specification: a program from Programs is loaded into a VM with  *)
(* some initial memory and stepped until it finishes.                      *)
(***************************************************************************)
\* Memory addresses of the enumerated VMs: a two-cell memory.
Addrs == {0, 1}

\* Register counts of the enumerated VMs: with one register, cell 1 is a
\* constant; with two there is no constant.
NumRegs == {1, 2}

\* Initial contents of a memory cell.
MemVals == {F(0), F(1)}

\* The instructions the enumerated programs are made of.
OpPool ==
  {Op3("Add", 0, 0, 1), Op3("Sub", 1, 0, 1), Op3("Mul", 0, 1, 1),
   Op3("Div", 0, 1, 1), Op3("Div", 1, 0, 1),
   Op2("Neg", 0, 0), Op2("Abs", 1, 0), Op2("Copy", 0, 1), Op2("Copy", 1, 0),
   OpImm("Load", 0, F(2)), OpImm("Load", 1, PInf), OpImm("Load", 1, NaN),
   OpCmp("IfLt", 0, 1), OpCmp("IfLt", 1, 0),
   Op2("Copy", 2, 0), Op2("Copy", 0, 2)}

RECURSIVE SeqsUpTo(_, _)
SeqsUpTo(S, n) ==
  IF n = 0 THEN {<<>>}
  ELSE LET shorter == SeqsUpTo(S, n - 1)
       IN  shorter \cup {Append(s, x) : s \in {t \in shorter : Len(t) = n - 1}, x \in S}

Programs == SeqsUpTo(OpPool, MaxCode)

\* The output-register sets the optimizer is asked about.
OutputSets == {{0}, {1}, {0, 1}}

NoVm == LgpVmNew(<<>>, <<>>, 0)
NoAsm == [phase |-> "none"]
NoEv == [phase |-> "none"]

InitVm ==
  /\ \E code \in Programs, mem \in [Addrs -> MemVals], num_reg \in NumRegs :
       vm = LgpVmNew(code, mem, num_reg)
  /\ asmst = NoAsm
  /\ ev = NoEv

\* One call of LgpVm::step by the loop of LgpVm::run.
Step ==
  /\ ~vm.finished
  /\ vm' = step(vm)
  /\ UNCHANGED <<asmst, ev>>

NextVm == Step

SpecVm == InitVm /\ [][NextVm]_vars

(***************************************************************************)
(* Program text: lgp_disasm and lgp_asm.  A text is a sequence of          *)
(* one-character strings.                                                  *)
(***************************************************************************)
Digits == <<"0", "1", "2", "3", "4", "5", "6", "7", "8", "9">>

IsDigit(c) == \E i \in DOMAIN Digits : Digits[i] = c
DigitVal(c) == (CHOOSE i \in DOMAIN Digits : Digits[i] = c) - 1

\* The decimal digits of a natural number, as {} formats an integer.
RECURSIVE DecNat(_)
DecNat(n) ==
  IF n < 10 THEN <<Digits[n + 1]>>
  ELSE DecNat(n \div 10) \o <<Digits[(n % 10) + 1]>>

\* The value of a non-empty string of digits.
RECURSIVE NatOf(_)
NatOf(cs) ==
  IF Len(cs) = 1 THEN DigitVal(cs[1])
  ELSE 10 * NatOf(SubSeq(cs, 1, Len(cs) - 1)) + DigitVal(cs[Len(cs)])

AllDigits(cs) == cs # <<>> /\ \A i \in DOMAIN cs : IsDigit(cs[i])

\* The largest u8.
U8Max == 255

\* str::parse::<u8>: an optional '+', then digits, no more than 255.
ParseU8(cs) ==
  LET ds == IF cs # <<>> /\ cs[1] = "+" THEN Tail(cs) ELSE cs
  IN  IF AllDigits(ds) /\ NatOf(ds) <= U8Max
      THEN [ok |-> TRUE, val |-> NatOf(ds)]
      ELSE [ok |-> FALSE, val |-> 0]

RECURSIVE Pow10(_)
Pow10(k) == IF k = 0 THEN 1 ELSE 10 * Pow10(k - 1)

\* str::parse::<f32> on the texts {} produces for an f32: an optional sign,
\* then inf, NaN, or digits with an optional fraction.
ParseF32(cs) ==
  LET neg == cs # <<>> /\ cs[1] = "-"
      body == IF cs # <<>> /\ cs[1] \in {"-", "+"} THEN Tail(cs) ELSE cs
      dots == {i \in DOMAIN body : body[i] = "."}
      dot == IF dots = {} THEN Len(body) + 1 ELSE CHOOSE i \in dots : TRUE
      ip == SubSeq(body, 1, dot - 1)
      fp == SubSeq(body, dot + 1, Len(body))
      sign == IF neg THEN -1 ELSE 1
  IN  CASE body = <<"i", "n", "f">> ->
             [ok |-> TRUE, val |-> IF neg THEN NInf ELSE PInf]
        [] body = <<"N", "a", "N">> -> [ok |-> TRUE, val |-> NaN]
        [] /\ Cardinality(dots) <= 1
           /\ ip \o fp # <<>>
           /\ \A i \in DOMAIN (ip \o fp) : IsDigit((ip \o fp)[i]) ->
             [ok |-> TRUE,
              val |-> Rat(sign * ((IF ip = <<>> THEN 0 ELSE NatOf(ip)) * Pow10(Len(fp))
                                  + (IF fp = <<>> THEN 0 ELSE NatOf(fp))),
                          Pow10(Len(fp)))]
        [] OTHER -> [ok |-> FALSE, val |-> F(0)]

\* {} of an f32 with at most one decimal digit: no exponent, no trailing
\* zero, "inf" and "NaN" for the non-finite values.
FmtF32(v) ==
  CASE v.k = "nan" -> <<"N", "a", "N">>
    [] v.k = "inf" -> (IF v.n < 0 THEN <<"-">> ELSE <<>>) \o <<"i", "n", "f">>
    [] OTHER ->
         LET a == Abs(v.n)
             frac == ((a * 10) \div v.d) % 10
         IN  (IF v.n < 0 THEN <<"-">> ELSE <<>>)
             \o DecNat(a \div v.d)
             \o (IF frac = 0 THEN <<>> ELSE <<".", Digits[frac + 1]>>)

\* The mnemonic of an opcode.
Mnemonic(code) ==
  CASE code = "Add" -> <<"a", "d", "d">>
    [] code = "Sub" -> <<"s", "u", "b">>
    [] code = "Mul" -> <<"m", "u", "l">>
    [] code = "Div" -> <<"d", "i", "v">>
    [] code = "Abs" -> <<"a", "b", "s">>
    [] code = "Neg" -> <<"n", "e", "g">>
    [] code = "Pow" -> <<"p", "o", "w">>
    [] code = "Ln" -> <<"l", "n">>
    [] code = "Sin" -> <<"s", "i", "n">>
    [] code = "Cos" -> <<"c", "o", "s">>
    [] code = "Load" -> <<"l", "o", "a", "d">>
    [] code = "Copy" -> <<"c", "o", "p", "y">>
    [] OTHER -> <<"i", "f", "l", "t">>

RegText(r) == <<"r">> \o DecNat(r)

\* Display of an Op: "add r0, r1, r2", "neg r0, r1", "load r0, 1.5",
\* "iflt r0, r1".
OpDisplay(op) ==
  LET shape == OperandShape(op.code)
      sep == <<",", " ">>
  IN  Mnemonic(op.code) \o <<" ">> \o
      (CASE shape = "Reg3Assign" ->
              RegText(op.ri) \o sep \o RegText(op.ra) \o sep \o RegText(op.rb)
         [] shape = "Reg2Assign" -> RegText(op.ri) \o sep \o RegText(op.ra)
         [] shape = "ImmAssign" -> RegText(op.ri) \o sep \o FmtF32(op.imm)
         [] OTHER -> RegText(op.ra) \o sep \o RegText(op.rb))

\* lgp_disasm: each instruction on a line of its own.
RECURSIVE lgp_disasm(_)
lgp_disasm(code) ==
  IF code = <<>> THEN <<>>
  ELSE OpDisplay(Head(code)) \o <<"\n">> \o lgp_disasm(Tail(code))

\* str::lines: the text split at every "\n"; a last line need not end in one.
RECURSIVE LinesOf(_, _)
LinesOf(text, cur) ==
  IF text = <<>> THEN (IF cur = <<>> THEN <<>> ELSE <<cur>>)
  ELSE IF Head(text) = "\n" THEN <<cur>> \o LinesOf(Tail(text), <<>>)
  ELSE LinesOf(Tail(text), Append(cur, Head(text)))

\* str::split_whitespace: the maximal runs of non-blank characters.
RECURSIVE TokensOf(_, _)
TokensOf(line, cur) ==
  IF line = <<>> THEN (IF cur = <<>> THEN <<>> ELSE <<cur>>)
  ELSE IF Head(line) \in {" ", "\t"}
       THEN (IF cur = <<>> THEN <<>> ELSE <<cur>>) \o TokensOf(Tail(line), <<>>)
  ELSE TokensOf(Tail(line), Append(cur, Head(line)))

\* tok.replace(',', "")
RemoveCommas(tok) == SelectSeq(tok, LAMBDA c : c # ",")

\* The register parse that keeps the character in front of the number.
ParseReg_keep(tok) ==
  LET t == RemoveCommas(tok)
      r == ParseU8(t)
  IN  [kind |-> IF r.ok THEN "ok" ELSE "err", val |-> r.val]

\* tok.replace(',', "")[1..].parse(): the slice panics on an empty string.
ParseReg(tok) ==
  LET t == RemoveCommas(tok)
      r == ParseU8(Tail(t))
  IN  IF t = <<>> THEN [kind |-> "panic", val |-> 0]
      ELSE [kind |-> IF r.ok THEN "ok" ELSE "err", val |-> r.val]

ParseImm(tok) ==
  LET r == ParseF32(tok)
  IN  [kind |-> IF r.ok THEN "ok" ELSE "err", val |-> r.val]

\* The operand tokens of a shape, in the order lgp_asm_op reads them.
OperandFields(shape) ==
  CASE shape = "Reg3Assign" -> <<"ri", "ra", "rb">>
    [] shape = "Reg2Assign" -> <<"ri", "ra">>
    [] shape = "ImmAssign" -> <<"ri", "imm">>
    [] OTHER -> <<"ra", "rb">>

\* The operands of lgp_asm_op read in order from tokens[i..], into op: the
\* first token that is missing or does not parse ends it.
RECURSIVE ReadOperands(_, _, _, _)
ReadOperands(tokens, fields, i, op) ==
  IF i > Len(fields) THEN [kind |-> "ok", op |-> op]
  ELSE IF Len(tokens) < i + 1 THEN [kind |-> "err", op |-> op]
  ELSE LET r == IF fields[i] = "imm" THEN ParseImm(tokens[i + 1])
                ELSE ParseReg(tokens[i + 1])
       IN  IF r.kind # "ok" THEN [kind |-> r.kind, op |-> op]
           ELSE ReadOperands(tokens, fields, i + 1, [op EXCEPT ![fields[i]] = r.val])

\* lgp_asm_op: one line to one Op, an error, or a panic.
lgp_asm_op(line) ==
  LET tokens == TokensOf(line, <<>>)
      codes == {c \in Opcodes : tokens # <<>> /\ Mnemonic(c) = tokens[1]}
  IN  IF codes = {} THEN [kind |-> "err", op |-> Op2("Add", 0, 0)]
      ELSE LET code == CHOOSE c \in codes : TRUE
           IN  ReadOperands(tokens, OperandFields(OperandShape(code)), 1,
                            [code |-> code, ri |-> 0, ra |-> 0, rb |-> 0, imm |-> F(0)])

\* The loop of lgp_asm over lines[i..], with the ops assembled so far.
RECURSIVE AsmLines(_, _, _)
AsmLines(lines, i, ops) ==
  IF i > Len(lines) THEN [kind |-> "ok", ops |-> ops]
  ELSE LET r == lgp_asm_op(lines[i])
       IN  IF r.kind # "ok" THEN [kind |-> r.kind, ops |-> <<>>]
           ELSE AsmLines(lines, i + 1, Append(ops, r.op))

\* lgp_asm: Ok(ops), Err, or a panic.
lgp_asm(text) == AsmLines(LinesOf(text, <<>>), 1, <<>>)

(***************************************************************************)
(* The text specification: a program is disassembled and the text          *)
(* assembled again, or a text written by hand is assembled.                *)
(***************************************************************************)
\* Longest program the text specification disassembles.
MaxAsmCode == 1

\* Most lines in a hand-written text.
MaxAsmLines == 2

\* Register operands and immediates of the disassembled programs.
AsmRegs == {0, 19, 255}
AsmImms == {F(2), Rat(-3, 2), PInf, NaN}

AsmOps ==
  {Op3(c, ri, ra, rb) : c \in {"Add", "Sub", "Mul", "Div", "Pow"},
                        ri \in AsmRegs, ra \in AsmRegs, rb \in AsmRegs}
  \cup {Op2(c, ri, ra) : c \in {"Abs", "Neg", "Ln", "Sin", "Cos", "Copy"},
                         ri \in AsmRegs, ra \in AsmRegs}
  \cup {OpImm("Load", ri, imm) : ri \in AsmRegs, imm \in AsmImms}
  \cup {OpCmp("IfLt", ra, rb) : ra \in AsmRegs, rb \in AsmRegs}

\* The lines a hand-written text is made of: two that assemble, and lines
\* that are empty, name no instruction, lack an operand, or carry an operand
\* that is no number or is empty once its commas are removed.
HandLines ==
  {<<"a", "d", "d", " ", "r", "0", ",", " ", "r", "1", ",", " ", "r", "2">>,
   <<"l", "o", "a", "d", " ", "r", "1", ",", " ", "0", ".", "5">>,
   <<>>,
   <<"j", "m", "p", " ", "r", "0">>,
   <<"a", "d", "d", " ", "r", "0", ",", " ", "r", "1">>,
   <<"i", "f", "l", "t">>,
   <<"s", "u", "b", " ", "r", "0", ",", " ", "r", "x", ",", " ", "r", "1">>,
   <<"n", "e", "g", " ", "r", "2", "5", "6", ",", " ", "r", "0">>,
   <<"l", "o", "a", "d", " ", "r", "0", ",", " ", "x">>,
   <<"c", "o", "p", "y", " ", "r", ",", " ", "r", "1">>,
   <<"m", "u", "l", " ", ",", " ", "r", "1", ",", " ", "r", "2">>}

RECURSIVE JoinLines(_)
JoinLines(lines) ==
  IF lines = <<>> THEN <<>>
  ELSE Head(lines) \o <<"\n">> \o JoinLines(Tail(lines))

HandTexts == {JoinLines(ls) : ls \in SeqsUpTo(HandLines, MaxAsmLines) \ {<<>>}}

NoRes == [kind |-> "none", ops |-> <<>>]

InitAsm ==
  /\ vm = NoVm
  /\ ev = NoEv
  /\ \/ \E code \in SeqsUpTo(AsmOps, MaxAsmCode) :
          asmst = [phase |-> "code", src |-> "code", code |-> code,
                   text |-> <<>>, res |-> NoRes]
     \/ \E text \in HandTexts :
          asmst = [phase |-> "text", src |-> "text", code |-> <<>>,
                   text |-> text, res |-> NoRes]

\* lgp_disasm(code)
Disasm ==
  /\ asmst.phase = "code"
  /\ asmst' = [asmst EXCEPT !.phase = "text", !.text = lgp_disasm(asmst.code)]
  /\ UNCHANGED <<vm, ev>>

\* lgp_asm(text)
Assemble ==
  /\ asmst.phase = "text"
  /\ asmst' = [asmst EXCEPT !.phase = "done", !.res = lgp_asm(asmst.text)]
  /\ UNCHANGED <<vm, ev>>

NextAsm == Disasm \/ Assemble

SpecAsm == InitAsm /\ [][NextAsm]_vars

IsMnemonic(tok) == \E c \in Opcodes : Mnemonic(c) = tok
NeedsOperands(tok) ==
  IF tok = <<"l", "n">> \/ tok \in {Mnemonic(c) : c \in {"Abs", "Neg", "Sin", "Cos", "Copy", "Load", "IfLt"}}
  THEN 2 ELSE 3

\* A register token that is no number once its commas are removed and the
\* leading character is dropped, or that is empty once they are removed.
BadRegToken(tok) ==
  LET t == RemoveCommas(tok)
  IN  t = <<>> \/ ~ParseU8(SubSeq(t, 2, Len(t))).ok

\* A line lgp_asm cannot parse: empty, an unknown mnemonic, a missing
\* operand, or an operand that is empty or no number.
BadLine(line) ==
  LET toks == TokensOf(line, <<>>)
  IN  \/ toks = <<>>
      \/ ~IsMnemonic(toks[1])
      \/ Len(toks) < 1 + NeedsOperands(toks[1])
      \/ \E i \in 2..(1 + NeedsOperands(toks[1])) :
           IF toks[1] = Mnemonic("Load") /\ i = 3
           THEN ~ParseF32(toks[i]).ok
           ELSE BadRegToken(toks[i])

\* C6: for a text with a line that cannot be parsed, lgp_asm returns an
\* error and no program; it never panics.
C6_AsmErrorNoPanic ==
  (asmst.phase = "done" /\ \E i \in DOMAIN LinesOf(asmst.text, <<>>) :
                             BadLine(LinesOf(asmst.text, <<>>)[i]))
    => asmst.res.kind = "err" /\ asmst.res.ops = <<>>

(***************************************************************************)
(* Claims about the VM and the optimizer (under SpecVm).                   *)
(***************************************************************************)
\* The instruction the next step fetches, when there is one.
Fetching == ~vm.finished /\ vm.pc < Len(vm.code)
FetchedOp == vm.code[vm.pc + 1]

\* The final memory of the optimized program run on the same initial memory.
OptimizedRun(out) ==
  run(LgpVmNew(optimize(vm.code, out).code, vm.mem0, vm.num_reg))

\* C1: when the run of the unoptimized program has finished, the optimized
\* program, run on the same initial registers and constants, leaves the same
\* value in every declared output register, for every output-register set.
C1_OptimizedSameOutputs ==
  (vm.finished /\ ~vm.panicked) =>
    \A out \in OutputSets : \A r \in out : OptimizedRun(out).mem[r] = vm.mem[r]

\* C2: run terminates: a step never lowers pc, a step that fetches raises it
\* by at least one, pc never passes the end of the code, a step at the end of
\* the code fetches nothing and finishes the run, and so no more than
\* code.len() instructions are ever fetched.
C2_RunTerminates ==
  /\ [](vm.steps <= Len(vm.code) /\ vm.pc <= Len(vm.code))
  /\ [][/\ vm'.pc >= vm.pc
        /\ Fetching => vm'.steps = vm.steps + 1 /\ vm'.pc > vm.pc
        /\ ~Fetching => vm'.finished /\ vm'.steps = vm.steps /\ vm'.pc = vm.pc]_vars

\* C2 witness: a finished run that fetched fewer instructions than the
\* program holds, because a false IfLt jumped over some.
C2_Witness ==
  /\ vm.finished /\ ~vm.panicked
  /\ vm.pc = Len(vm.code)
  /\ vm.steps >= 1 /\ vm.steps < Len(vm.code)

\* C3: every cell at or above num_reg holds its initial value at every step,
\* and a step whose instruction has such a cell as destination (and inputs
\* inside the memory) changes no cell and does not fail.
C3_ConstantsReadOnly ==
  /\ [](\A i \in DOMAIN vm.mem : i >= vm.num_reg => vm.mem[i] = vm.mem0[i])
  /\ [][(/\ Fetching
         /\ output_regs(FetchedOp) # <<>>
         /\ FetchedOp.ri >= vm.num_reg
         /\ \A r \in SeqToSet(input_regs(FetchedOp)) : r \in DOMAIN vm.mem)
        => vm'.mem = vm.mem /\ ~vm'.panicked]_vars

\* C3 witness: an instruction whose destination is the constant cell 1 has
\* been executed after a register was changed, and the run has finished.
C3_Witness ==
  /\ vm.finished /\ ~vm.panicked /\ vm.num_reg = 1
  /\ vm.steps = Len(vm.code)
  /\ \E i \in DOMAIN vm.code :
       output_regs(vm.code[i]) = <<1>> /\ vm.code[i].code \in {"Sub", "Copy"}
  /\ vm.mem[0] # vm.mem0[0]

\* Where a false IfLt at 0-based index at must leave pc: one past the first
\* non-branch instruction after it, or the end of the code.
SkipTarget(code, at) ==
  LET nonbranch == {j \in (at + 2)..Len(code) : code[j].code # "IfLt"}
  IN  IF nonbranch = {} THEN Len(code)
      ELSE CHOOSE j \in nonbranch : \A k \in nonbranch : j <= k

\* What a step that fetches IfLt ra, rb does when taken is the truth value
\* that lets the next instruction run.
IfLtStep(taken) ==
  (Fetching /\ FetchedOp.code = "IfLt" /\ FetchedOp.ra \in DOMAIN vm.mem
            /\ FetchedOp.rb \in DOMAIN vm.mem)
  => /\ vm'.mem = vm.mem
     /\ taken => vm'.pc = vm.pc + 1
     /\ ~taken => vm'.pc = SkipTarget(vm.code, vm.pc)

\* C4 as stated: the next instruction runs iff mem[ra] < mem[rb]; otherwise
\* the branches that follow and one non-branch instruction are skipped.
C4_IfLtAsStated ==
  [][IfLtStep(FLt(vm.mem[FetchedOp.ra], vm.mem[FetchedOp.rb]))]_vars

\* C4 amended: IfLt changes no memory cell; the skip happens iff
\* mem[ra] >= mem[rb]; when mem[ra] < mem[rb], and also when either value is
\* NaN, the instruction right after the IfLt is executed next.
C4_IfLtSkipsOnGe ==
  [][IfLtStep(~FGe(vm.mem[FetchedOp.ra], vm.mem[FetchedOp.rb]))]_vars

\* C4 witness: a false IfLt at the head of a program of three instructions
\* was followed by another branch, and the single step taken skipped both
\* that branch and the instruction it guards.
C4_Witness ==
  /\ Len(vm.code) = 3
  /\ vm.code[1].code = "IfLt" /\ vm.code[2].code = "IfLt"
  /\ vm.code[3].code # "IfLt"
  /\ vm.steps = 1 /\ vm.pc = 3 /\ vm.mem = vm.mem0
  /\ FGe(vm.mem[vm.code[1].ra], vm.mem[vm.code[1].rb])

\* The program code without its instruction at position j.
Without(code, j) == SubSeq(code, 1, j - 1) \o SubSeq(code, j + 1, Len(code))

\* Initial contents of a memory cell tried when an instruction is deleted.
DeleteMemVals == {F(-1), F(0), F(1), F(2)}

\* Whether every register index of the program is inside the memory.
InsideMem(code) ==
  \A i \in DOMAIN code :
    SeqToSet(output_regs(code[i])) \cup SeqToSet(input_regs(code[i])) \subseteq Addrs

\* Whether deleting the instruction at position j of code changes the final
\* value of a register of out for some initial memory.
Necessary(code, j, out, num_reg) ==
  \E mem \in [Addrs -> DeleteMemVals] : \E r \in out :
    run(LgpVmNew(code, mem, num_reg)).mem[r]
      # run(LgpVmNew(Without(code, j), mem, num_reg)).mem[r]

\* C21 as stated: every instruction kept by optimize is necessary: deleting
\* it alone from the optimized program changes the final value of a declared
\* output register for some initial memory.
C21_KeptIsNecessary ==
  \A out \in OutputSets :
    LET kept == optimize(vm.code, out).code
    IN  InsideMem(kept) =>
          \A j \in DOMAIN kept : Necessary(kept, j, out, vm.num_reg)

\* Whether the instruction at position m of code writes register r without
\* a branch right in front of it.
UnguardedWrite(code, m, r) ==
  /\ r \in SeqToSet(output_regs(code[m]))
  /\ ~(m > 1 /\ is_branch(code[m - 1].code))

\* Whether the value register r holds after position j of code can be read:
\* by a later instruction, or as a declared output at the end, with no
\* unguarded write of r in between.
ReadAfter(code, j, r, out) ==
  \/ \E k \in (j + 1)..Len(code) :
       /\ r \in SeqToSet(input_regs(code[k]))
       /\ \A m \in (j + 1)..(k - 1) : ~UnguardedWrite(code, m, r)
  \/ /\ r \in out
     /\ \A m \in (j + 1)..Len(code) : ~UnguardedWrite(code, m, r)

\* C21 amended: every instruction kept by optimize is live in the optimized
\* program: a branch has an instruction after it, and any other instruction
\* writes a register that a later kept instruction reads, or that is a
\* declared output, with no unguarded kept write of that register in
\* between.
C21_KeptIsLive ==
  \A out \in OutputSets :
    LET kept == optimize(vm.code, out).code
    IN  \A j \in DOMAIN kept :
          IF is_branch(kept[j].code) THEN j < Len(kept)
          ELSE \E r \in SeqToSet(output_regs(kept[j])) : ReadAfter(kept, j, r, out)

\* C21 witness: a program of three instructions of which optimize, for the
\* output register 0, keeps the branch and the write of register 0 it
\* guards and removes the write of register 1 that follows.
C21_Witness ==
  /\ Len(vm.code) = 3
  /\ is_branch(vm.code[1].code)
  /\ output_regs(vm.code[2]) = <<0>>
  /\ output_regs(vm.code[3]) = <<1>>
  /\ optimize(vm.code, {0}).code = <<vm.code[1], vm.code[2]>>

\* The program with each instruction carrying its position.
Tagged(code) == [i \in DOMAIN code |-> [idx |-> i] @@ code[i]]

\* The positions of the instructions of code that optimize keeps.
KeptAt(code, out) == {op.idx : op \in SeqToSet(optimize(Tagged(code), out).code)}

\* Whether position k of code is a kept, unguarded instruction after i that
\* writes every register i writes, no kept instruction after i up to and
\* including k reading any of them.
Overwrites(code, out, i, k) ==
  /\ k > i /\ k \in KeptAt(code, out)
  /\ ~is_branch(code[k - 1].code)
  /\ SeqToSet(output_regs(code[i])) \subseteq SeqToSet(output_regs(code[k]))
  /\ \A m \in (i + 1)..k :
       m \in KeptAt(code, out) =>
         SeqToSet(input_regs(code[m])) \cap SeqToSet(output_regs(code[i])) = {}

\* The positions of the branches that guard position i: the run of branches
\* that ends right in front of it.
Guards(code, i) ==
  {b \in 1..(i - 1) : \A m \in b..(i - 1) : is_branch(code[m].code)}

\* The program of tests::optimize_branches and the program expected of
\* optimize for the output register 0.
optimize_branches ==
  <<Op2("Neg", 1, 2), OpCmp("IfLt", 1, 2), Op3("Mul", 0, 1, 3),
    OpCmp("IfLt", 2, 3), Op3("Mul", 0, 2, 3), Op3("Add", 0, 1, 2)>>
optimize_branches_expected == <<Op2("Neg", 1, 2), Op3("Add", 0, 1, 2)>>

\* C22: optimize removes an instruction, and every branch guarding it, when
\* each register it writes is written by a later kept unguarded instruction
\* and no kept instruction in between, that one included, reads it; and for
\* the program of optimize_branches with output register 0 it returns
\* exactly neg r1, r2; add r0, r1, r2.
C22_OverwrittenRemoved ==
  /\ \A out \in OutputSets : \A i \in DOMAIN vm.code :
       (/\ output_regs(vm.code[i]) # <<>>
        /\ \E k \in DOMAIN vm.code : Overwrites(vm.code, out, i, k))
       => KeptAt(vm.code, out) \cap ({i} \cup Guards(vm.code, i)) = {}
  /\ optimize(optimize_branches, {0}) =
       [panicked |-> FALSE, code |-> optimize_branches_expected]

\* C22 witness: a program of three instructions, a branch guarding a write
\* of register 0 followed by an unguarded write of register 0 that does not
\* read it, of which optimize keeps the last instruction only.
C22_Witness ==
  /\ Len(vm.code) = 3
  /\ is_branch(vm.code[1].code)
  /\ output_regs(vm.code[2]) = <<0>>
  /\ Overwrites(vm.code, {0}, 2, 3)
  /\ optimize(vm.code, {0}).code = <<vm.code[3]>>

\* eff_regs when the loop of optimize has handled the instructions from
\* position i to the end.
EffRegsBefore(code, out, i) ==
  OptimizeFrom(SubSeq(code, i, Len(code)), Len(code) - i + 1, OptimizeInit(out)).eff_regs

\* The programs of the tests optimize_branch_on, optimize_two_branch_off,
\* optimize_two_branch_on, optimize_remove_last_branch and
\* optimize_keep_last_branch with what they expect for output register 0.
BranchTests ==
  LET head == <<Op3("Add", 4, 1, 2), Op3("Add", 3, 1, 2), Op3("Add", 1, 1, 2)>>
  IN  {[code |-> head \o <<OpCmp("IfLt", 2, 3), Op3("Mul", 1, 2, 3), Op3("Add", 0, 1, 1)>>,
        expected |-> Tail(head)
                     \o <<OpCmp("IfLt", 2, 3), Op3("Mul", 1, 2, 3), Op3("Add", 0, 1, 1)>>],
       [code |-> head \o <<OpCmp("IfLt", 2, 4), OpCmp("IfLt", 2, 3), Op3("Mul", 1, 2, 3),
                           Op3("Add", 0, 2, 2)>>,
        expected |-> <<Op3("Add", 0, 2, 2)>>],
       [code |-> head \o <<OpCmp("IfLt", 2, 4), OpCmp("IfLt", 2, 3), Op3("Mul", 1, 2, 3),
                           Op3("Add", 0, 1, 1)>>,
        expected |-> head \o <<OpCmp("IfLt", 2, 4), OpCmp("IfLt", 2, 3),
                               Op3("Mul", 1, 2, 3), Op3("Add", 0, 1, 1)>>],
       [code |-> <<OpCmp("IfLt", 1, 2), Op3("Mul", 1, 1, 3)>>, expected |-> <<>>],
       [code |-> <<OpCmp("IfLt", 1, 2), Op3("Mul", 0, 1, 3)>>,
        expected |-> <<OpCmp("IfLt", 1, 2), Op3("Mul", 0, 1, 3)>>]}

\* C27: a branch is kept iff the instruction right after it in the input is
\* kept; when it is kept, the registers that instruction writes (and the
\* registers the branch reads) are effective before the branch; every
\* branch of the run in front of an instruction is kept or removed with it;
\* a kept branch is followed in the output by the instruction that followed
\* it in the input; and the branch tests of the optimizer give what they
\* expect.
C27_BranchKeptWithGuarded ==
  /\ \A out \in OutputSets :
       LET kept == KeptAt(vm.code, out)
           opt == optimize(Tagged(vm.code), out).code
       IN  /\ \A i \in DOMAIN vm.code :
                is_branch(vm.code[i].code) =>
                  /\ i \in kept <=> (i < Len(vm.code) /\ i + 1 \in kept)
                  /\ i \in kept =>
                       SeqToSet(output_regs(vm.code[i + 1]))
                         \cup SeqToSet(input_regs(vm.code[i]))
                           \subseteq EffRegsBefore(vm.code, out, i)
           /\ \A g \in DOMAIN vm.code : \A b \in Guards(vm.code, g) :
                b \in kept <=> g \in kept
           /\ \A k \in DOMAIN opt :
                is_branch(opt[k].code) =>
                  k < Len(opt) /\ opt[k + 1].idx = opt[k].idx + 1
  /\ \A t \in BranchTests :
       optimize(t.code, {0}) = [panicked |-> FALSE, code |-> t.expected]

\* C27 witness: a branch guards a write of register 2, which only the last
\* instruction reads; optimize keeps all three for the output register 0
\* and register 2 is effective before the branch.
C27_Witness ==
  /\ Len(vm.code) = 3
  /\ is_branch(vm.code[1].code)
  /\ output_regs(vm.code[2]) = <<2>>
  /\ input_regs(vm.code[3]) = <<2>>
  /\ optimize(vm.code, {0}).code = vm.code
  /\ 2 \in EffRegsBefore(vm.code, {0}, 1)

\* Output-register sets over the whole address space of a memory of 256
\* cells (num_reg + constants.len() = 256), the last cell included.
WideOutputSets == OutputSets \cup {{255}, {0, 255}}

\* The program code with its register `from` moved to the cell `to`.
Relabel(code, from, to) ==
  LET m(r) == IF r = from THEN to ELSE r
  IN  [i \in DOMAIN code |->
         [code[i] EXCEPT !.ri = m(@), !.ra = m(@), !.rb = m(@)]]

\* C29: optimize completes without indexing eff_regs out of bounds for
\* every program and output-register set over the registers 0..=255,
\* register 255 included.
C29_OptimizeInBounds ==
  \A out \in WideOutputSets :
    /\ ~optimize(vm.code, out).panicked
    /\ ~optimize(Relabel(vm.code, 2, 255), out).panicked

(***************************************************************************)
(* Evolver: members, fitness evaluation and its reduction.  A State is a   *)
(* small integer; the evaluator's crossover and mutation operators may     *)
(* turn a state into any other.  The adaptive parameters of a member       *)
(* (Params) are left out: reproduction is modelled with weight vectors of  *)
(* the right length and sign.                                              *)
(***************************************************************************)
\* Most generations a behaviour of the Evolver specification evaluates.
MaxGen == 1

\* The states an evaluator works on.
States == {0, 1}

NO_SPECIES == 0
NUM_TRIES == 3

Min(a, b) == IF a < b THEN a ELSE b
Max(a, b) == IF a > b THEN a ELSE b

\* ceil(n / d) for d > 0.
CeilDiv(n, d) == -((-n) \div d)

RECURSIVE IPow(_, _)
IPow(b, e) == IF e = 0 THEN 1 ELSE b * IPow(b, e - 1)

\* The integer part of the k-th root of v >= 0.
IRoot(v, k) == CHOOSE r \in 0..v : IPow(r, k) <= v /\ IPow(r + 1, k) > v

\* x.powf(y) for the exponents multi_fitness uses, y = 1 / len with len >= 0
\* (y = +inf for len = 0).  Exact when x is a perfect power, which is what
\* the evaluators of the model produce; otherwise rounded down.
FPowf(x, y) ==
  CASE y = F(1) -> x
    [] is_nan(x) -> NaN
    [] y = PInf ->
         IF x.k = "inf" THEN PInf
         ELSE IF Abs(x.n) < x.d THEN F(0)
         ELSE IF Abs(x.n) = x.d THEN F(1) ELSE PInf
    [] x.k = "inf" -> PInf
    [] x.n < 0 -> NaN
    [] OTHER -> Rat(IRoot(x.n, y.d), IRoot(x.d, y.d))

MemberNew(state) ==
  [state |-> state, species |-> NO_SPECIES, fitness |-> F(0),
   selection_fitness |-> F(0), age |-> 0]

SpeciesInfoNew == [num |-> 1, radius |-> F(1)]
DistCacheNew == [n |-> 0, cache |-> <<>>]

UnevaluatedGenNew(mems) ==
  [mems |-> mems, species |-> SpeciesInfoNew, dists |-> DistCacheNew]

\* Result<f64>
Ok(v) == [ok |-> TRUE, v |-> v]
Err == [ok |-> FALSE, v |-> NaN]

\* Evaluator::fitness of the evaluators the model runs: the fitness of state
\* s on datum d.
fitness(e, s, d) ==
  CASE e = "square" -> Ok(F((s + d) * (s + d)))
    [] e = "recip" -> Ok(FDiv(F(1), F(s - d)))
    [] e = "linear" -> Ok(F(s + d + 1))
    [] OTHER -> IF s = d THEN Err ELSE Ok(F(1))

RECURSIVE Accumulate(_, _, _, _, _)
Accumulate(e, s, inputs, reduction, cumulative) ==
  IF inputs = <<>> THEN Ok(cumulative)
  ELSE LET f == fitness(e, s, Head(inputs))
       IN  IF ~f.ok THEN Err
           ELSE Accumulate(e, s, Tail(inputs), reduction,
                           IF reduction = "ArithmeticMean"
                           THEN FAdd(cumulative, f.v) ELSE FMul(cumulative, f.v))

multi_fitness(e, s, inputs, reduction) ==
  LET acc == Accumulate(e, s, inputs, reduction,
                        IF reduction = "ArithmeticMean" THEN F(0) ELSE F(1))
  IN  IF ~acc.ok THEN Err
      ELSE IF reduction = "ArithmeticMean"
           THEN Ok(FDiv(acc.v, F(Len(inputs))))
           ELSE Ok(FPowf(acc.v, FDiv(F(1), F(Len(inputs)))))

\* sort_unstable_by: every arrangement of s that is ordered by Le; the order
\* of elements that compare equal is not specified.
Perms(n) == {p \in [1..n -> 1..n] : \A i, j \in 1..n : i # j => p[i] # p[j]}
FitnessDesc(a, b) == FGe(a.fitness, b.fitness)
AgeAsc(a, b) == a.age <= b.age
StateAsc(a, b) == a.state <= b.state
WinsDesc(a, b) == a[1] >= b[1]
SelectionDesc(a, b) == FGe(a.selection_fitness, b.selection_fitness)

\* Whether a may come before b in the given order.
InOrder(order, a, b) ==
  CASE order = "FitnessDesc" -> FitnessDesc(a, b)
    [] order = "AgeAsc" -> AgeAsc(a, b)
    [] order = "StateAsc" -> StateAsc(a, b)
    [] order = "SelectionDesc" -> SelectionDesc(a, b)
    [] OTHER -> WinsDesc(a, b)

SortUnstable(s, order) ==
  {t \in {[i \in 1..Len(s) |-> s[p[i]]] : p \in Perms(Len(s))} :
     \A i \in 1..(Len(s) - 1) : InOrder(order, t[i], t[i + 1])}

\* The fitness check without its sign test.
FitnessOk_finite(v) == is_finite(v)

\* The fitness check of evaluate.
FitnessOk(v) == FGe(v, F(0)) /\ is_finite(v)

\* mems.iter_mut().try_for_each(compute): fitnesses are written in place,
\* member by member, up to the first failing call.
RECURSIVE ComputeSeq(_, _, _, _, _)
ComputeSeq(mems, i, e, inputs, reduction) ==
  IF i > Len(mems) THEN [ok |-> TRUE, mems |-> mems]
  ELSE LET f == multi_fitness(e, mems[i].state, inputs, reduction)
       IN  IF ~f.ok THEN [ok |-> FALSE, mems |-> mems]
           ELSE ComputeSeq([mems EXCEPT ![i].fitness = f.v], i + 1, e, inputs, reduction)

\* A parallel evaluation that returns before every member has been written.
ComputePar_unjoined(mems, e, inputs, reduction) ==
  LET f == [i \in DOMAIN mems |-> multi_fitness(e, mems[i].state, inputs, reduction)]
      good == {i \in DOMAIN mems : f[i].ok}
      Written(W) == [i \in DOMAIN mems |->
                       IF i \in W THEN [mems[i] EXCEPT !.fitness = f[i].v] ELSE mems[i]]
  IN  {[ok |-> good = DOMAIN mems, mems |-> Written(W)] : W \in SUBSET good}

\* mems.par_iter_mut().try_for_each(compute): when some call fails, any of
\* the members whose call succeeds may have been written before the stop.
ComputePar(mems, e, inputs, reduction) ==
  LET f == [i \in DOMAIN mems |-> multi_fitness(e, mems[i].state, inputs, reduction)]
      good == {i \in DOMAIN mems : f[i].ok}
      Written(W) == [i \in DOMAIN mems |->
                       IF i \in W THEN [mems[i] EXCEPT !.fitness = f[i].v] ELSE mems[i]]
  IN  IF good = DOMAIN mems THEN {[ok |-> TRUE, mems |-> Written(good)]}
      ELSE {[ok |-> FALSE, mems |-> Written(W)] : W \in SUBSET good}

ComputeFitness(mems, e, inputs, cfg) ==
  IF cfg.par_fitness THEN ComputePar(mems, e, inputs, cfg.fitness_reduction)
  ELSE {ComputeSeq(mems, 1, e, inputs, cfg.fitness_reduction)}

(***************************************************************************)
(* DistCache and speciation.                                               *)
(***************************************************************************)
\* Evaluator::distance of the evaluators the model runs.
distance(e, s1, s2) == F(Abs(s1 - s2))

\* DistCache::ensure: an empty cache is filled with the n * n distances of
\* the members, row by row.
ensure(dists, mems, e) ==
  IF dists.cache # <<>> THEN dists
  ELSE LET n == Len(mems)
       IN  [n |-> n,
            cache |-> [v \in 1..(n * n) |->
                         distance(e, mems[((v - 1) \div n) + 1].state,
                                     mems[((v - 1) % n) + 1].state)]]

\* Index<(usize, usize)> for DistCache, for the members at positions i and j
\* (counted from 1).
DistAt(dists, i, j) == dists.cache[(i - 1) * dists.n + j]

RECURSIVE FoldMax(_, _, _)
FoldMax(cache, i, acc) ==
  IF i > Len(cache) THEN acc
  ELSE FoldMax(cache, i + 1, IF FLt(acc, cache[i]) THEN cache[i] ELSE acc)

\* DistCache::max
DistMax(dists) == FoldMax(dists.cache, 1, F(0))

\* The orders in which a HashSet may hand out its elements.
IterOrders(set) ==
  {q \in [1..Cardinality(set) -> set] : \A i, j \in DOMAIN q : i # j => q[i] # q[j]}

\* The representatives of the order q within the radius of the candidate.
RepsWithin(dists, q, cand, radius) ==
  {k \in DOMAIN q : FLe(DistAt(dists, q[k], cand), radius)}

\* for &rep_idx in assigned.iter() { if self[(rep_idx, cand_idx)] <= radius
\* { ...; break } }: the first representative of the order within the radius.
FirstRep(dists, q, cand, radius) ==
  q[CHOOSE k \in RepsWithin(dists, q, cand, radius) :
      \A m \in RepsWithin(dists, q, cand, radius) : k <= m]

\* The outer loop of speciate: the unassigned members within the radius of a
\* member of assigned take its species, assigned is cleared, and one of the
\* members still unassigned founds the next species.  The iteration order of
\* the two HashSets is not specified.
RECURSIVE SpeciateLoop(_, _, _, _, _, _, _)
SpeciateLoop(dists, radius, ids, unassigned, assigned, num, next_id) ==
  IF unassigned = {}
  THEN {[ids |-> ids, species |-> [num |-> num, radius |-> radius]]}
  ELSE UNION {
    LET remaining == {c \in unassigned : RepsWithin(dists, q, c, radius) = {}}
        ids1 == [i \in DOMAIN ids |->
                   IF i \in unassigned \ remaining
                   THEN ids[FirstRep(dists, q, i, radius)] ELSE ids[i]]
    IN  IF remaining = {}
        THEN {[ids |-> ids1, species |-> [num |-> num, radius |-> radius]]}
        ELSE UNION {SpeciateLoop(dists, radius, [ids1 EXCEPT ![new_idx] = next_id],
                                 remaining \ {new_idx}, {new_idx}, num + 1, next_id + 1)
                    : new_idx \in remaining}
    : q \in IterOrders(assigned)}

\* The largest element of a non-empty set of numbers.
SetMax(set) == CHOOSE x \in set : \A y \in set : y <= x

\* DistCache::speciate: the possible (ids, SpeciesInfo) for the members s at
\* the given radius.
speciate(dists, s, radius) ==
  LET ids == [i \in DOMAIN s |-> s[i].species]
      unassigned == {i \in DOMAIN s : ids[i] = NO_SPECIES}
      sorted_ids == {ids[i] : i \in DOMAIN s}
  IN  SpeciateLoop(dists, radius, ids, unassigned, DOMAIN s \ unassigned,
                   Cardinality(sorted_ids),
                   (IF sorted_ids = {} THEN NO_SPECIES ELSE SetMax(sorted_ids)) + 1)

\* relative_eq!(a, b, epsilon = ep) on finite values: equal, or no farther
\* apart than ep.  The relative test (f64::EPSILON times the larger
\* magnitude) never decides for the magnitudes of the model, which stay far
\* below ep / f64::EPSILON.
relative_eq(a, b, ep) == a = b \/ FLe(FAbs(FSub(a, b)), ep)

\* The tolerance of the radius search.
SearchEpsilon == Rat(1, 1000000)

\* while !relative_eq!(lo, hi, epsilon = 1.0e-6) { ... }: the binary search
\* of evaluate for the radius.  last holds what (ids, self.species) may be on
\* entry to the iteration; the result is what they may be after the loop.
RECURSIVE SearchRadius(_, _, _, _, _, _)
SearchRadius(dists, mems, target, lo, hi, last) ==
  IF relative_eq(lo, hi, SearchEpsilon) THEN last
  ELSE LET r == FDiv(FAdd(lo, hi), F(2))
           outs == speciate(dists, mems, r)
           less == {o \in outs : o.species.num < target}
           equal == {o \in outs : o.species.num = target}
           greater == {o \in outs : o.species.num > target}
       IN  equal
           \cup (IF less = {} THEN {} ELSE SearchRadius(dists, mems, target, lo, r, less))
           \cup (IF greater = {} THEN {}
                 ELSE SearchRadius(dists, mems, target, r, hi, greater))

\* for (i, &id) in ids.iter().enumerate() { self.mems[i].species = id }
AssignIds(mems, ids) ==
  [i \in DOMAIN mems |-> IF i \in DOMAIN ids THEN [mems[i] EXCEPT !.species = ids[i]]
                         ELSE mems[i]]

\* The speciation step of evaluate on the generation genr, whose members
\* have been sorted: the possible generations after it.
Speciate(genr, cfg, e) ==
  IF cfg.species.kind = "None" THEN {genr}
  ELSE LET dists == ensure(genr.dists, genr.mems, e)
       IN  {[mems |-> AssignIds(genr.mems, o.ids), species |-> o.species, dists |-> dists]
            : o \in SearchRadius(dists, genr.mems, cfg.species.target, F(0),
                                 DistMax(dists),
                                 {[ids |-> <<>>, species |-> genr.species]})}

(***************************************************************************)
(* Niching.                                                                *)
(***************************************************************************)
\* The exponent of fitness sharing.
ALPHA == 6

RECURSIVE FPowi(_, _)
FPowi(x, n) == IF n = 0 THEN F(1) ELSE FMul(x, FPowi(x, n - 1))

RECURSIVE ShareSum(_, _, _, _, _)
ShareSum(dists, i, j, radius, alpha) ==
  IF j > dists.n THEN F(0)
  ELSE LET d == DistAt(dists, i, j)
           rest == ShareSum(dists, i, j + 1, radius, alpha)
       IN  IF FLt(d, radius)
           THEN FAdd(FSub(F(1), FPowi(FDiv(d, radius), alpha)), rest)
           ELSE rest

\* DistCache::shared_fitness for a whole exponent alpha.
shared_fitness(dists, s, radius, alpha) ==
  [i \in DOMAIN s |->
     [s[i] EXCEPT !.selection_fitness =
        FDiv(s[i].fitness, ShareSum(dists, i, 1, radius, alpha))]]

\* Niching::None
Niche(mems) == [i \in DOMAIN mems |-> [mems[i] EXCEPT !.selection_fitness = mems[i].fitness]]

\* The niching step of evaluate, for Niching::None and
\* Niching::SharedFitness(radius).
Niching(genr, cfg, e) ==
  IF cfg.niching.kind = "None" THEN [genr EXCEPT !.mems = Niche(genr.mems)]
  ELSE LET dists == ensure(genr.dists, genr.mems, e)
       IN  [genr EXCEPT !.dists = dists,
                        !.mems = shared_fitness(dists, genr.mems, cfg.niching.radius, ALPHA)]

\* A sort of the members by selection fitness.
EvaluatedGenNew_selection(mems) == SortUnstable(mems, "SelectionDesc")

\* EvaluatedGen::new: the members sorted by fitness, best first.
EvaluatedGenNew(mems) == SortUnstable(mems, "FitnessDesc")

\* UnevaluatedGen::evaluate: the possible outcomes [ok, genr (the generation
\* evaluated in place), evaluated (the members of the EvaluatedGen
\* returned)].
evaluate(genr, inputs, cfg, e) ==
  UNION {
    IF ~c.ok \/ ~(\A i \in DOMAIN c.mems : FitnessOk(c.mems[i].fitness))
    THEN {[ok |-> FALSE, genr |-> [genr EXCEPT !.mems = c.mems], evaluated |-> <<>>]}
    ELSE UNION {
           UNION {
             {[ok |-> TRUE, genr |-> Niching(sp, cfg, e), evaluated |-> again]
                : again \in EvaluatedGenNew(Niching(sp, cfg, e).mems)}
             : sp \in Speciate([genr EXCEPT !.mems = sorted], cfg, e)}
           : sorted \in SortUnstable(c.mems, "FitnessDesc")}
    : c \in ComputeFitness(genr.mems, e, inputs, cfg)}

(***************************************************************************)
(* EvaluatedGen: survivors and the next generation.                        *)
(***************************************************************************)
Take(s, n) == SubSeq(s, 1, Min(n, Len(s)))

\* EvaluatedGen::species: the species tags present, ascending.
species(mems) ==
  LET tags == {mems[i].species : i \in DOMAIN mems}
  IN  CHOOSE t \in [1..Cardinality(tags) -> tags] :
        \A i, j \in DOMAIN t : i < j => t[i] < t[j]

RECURSIVE SelectSeq2(_, _)
SelectSeq2(s, n) ==
  IF s = <<>> THEN <<>>
  ELSE IF Head(s).species = n THEN <<Head(s)>> \o SelectSeq2(Tail(s), n)
  ELSE SelectSeq2(Tail(s), n)

species_mems(mems, n) == SelectSeq2(mems, n)

RECURSIVE SpeciesSurvivors(_, _, _)
SpeciesSurvivors(mems, ids, num) ==
  IF ids = <<>> THEN <<>>
  ELSE Take(species_mems(mems, Head(ids)), num) \o SpeciesSurvivors(mems, Tail(ids), num)

\* self.mems.choose_multiple(&mut rng, q): the sets of positions that can be
\* drawn, q distinct members or all of them when there are fewer.
Opponents(mems, q) ==
  {U \in SUBSET DOMAIN mems : Cardinality(U) = Min(q, Len(mems))}

\* opponents.filter(|opp| opp.fitness > mem.fitness).count() for the member
\* at position i and the opponents at the positions T.
Wins(mems, i, T) == Cardinality({j \in T : FLt(mems[i].fitness, mems[j].fitness)})

\* The win counts a tournament can give the member at index i: q distinct
\* members are drawn and those with a greater fitness are counted.
TournamentWins(mems, i, q) == {Wins(mems, i, T) : T \in Opponents(mems, q)}

\* The tournaments of Survival::Tournament(q): the opponents drawn for each
\* member, the counts, and the pairs (wins, position) as sorted by
\* sort_unstable_by_key(-wins).
Tournaments(mems, q) ==
  UNION {
    {[opps |-> o, wins |-> [i \in DOMAIN mems |-> Wins(mems, i, o[i])], ranked |-> t] :
       t \in SortUnstable([i \in DOMAIN mems |-> <<Wins(mems, i, o[i]), i>>], "WinsDesc")}
    : o \in [DOMAIN mems -> Opponents(mems, q)]}

BumpAges(mems) == [i \in DOMAIN mems |-> [mems[i] EXCEPT !.age = @ + 1]]

\* EvaluatedGen::survivors: the possible survivor lists.
survivors(mems, cfg) ==
  LET survival == cfg.survival
      chosen ==
        CASE survival.kind = "TopProportion" ->
               {Take(mems, CeilDiv(cfg.pop_size * survival.prop.n, survival.prop.d))}
          [] survival.kind = "SpeciesTopProportion" ->
               {SpeciesSurvivors(mems, species(mems),
                  CeilDiv(cfg.pop_size * survival.prop.n,
                          survival.prop.d * Len(species(mems))))}
          [] survival.kind = "Youngest" ->
               {Take(t, cfg.pop_size) : t \in SortUnstable(mems, "AgeAsc")}
          [] OTHER ->
               {[k \in DOMAIN mems |-> mems[o.ranked[k][2]]] :
                  o \in Tournaments(mems, survival.q)}
  IN  {BumpAges(c) : c \in chosen}

\* The number of random members next_gen inserts after len survivors,
\* whatever the iteration.
RefillNum_always(len, stagnant, cfg) ==
  Max(0, CeilDiv(cfg.replacement.n * (cfg.pop_size - len), cfg.replacement.d))

\* The number of random members next_gen inserts after len survivors:
\* (prop * remaining).ceil().max(0.0) when stagnant.
RefillNum(len, stagnant, cfg) ==
  IF stagnant
  THEN Max(0, CeilDiv(cfg.replacement.n * (cfg.pop_size - len), cfg.replacement.d))
  ELSE 0

\* The random members a stagnant generation is topped up with.
Refill(new_mems, stagnant, cfg) ==
  LET num == RefillNum(Len(new_mems), stagnant, cfg)
  IN  {new_mems \o [i \in 1..num |-> MemberNew(r[i])] : r \in [1..num -> States]}

\* Evaluator::NUM_CROSSOVER and Evaluator::NUM_MUTATION.
NUM_CROSSOVER == 2
NUM_MUTATION == 1

\* EvaluatedGen::check_weights: the length is l and no weight is negative.
check_weights(weights, l) ==
  Len(weights) = l /\ \A i \in DOMAIN weights : weights[i] >= 0

\* A parent's weight vector when the check is made: the configured vector
\* under Fixed; under Adaptive the parent's own vector, made by Params::new
\* with l weights and kept in range by max(0.0) and clamp(0.0, 1.0).
ParentWeights(setting, l) ==
  IF setting.kind = "Fixed" THEN setting.weights ELSE [i \in 1..l |-> 1]

\* Whether EvaluatedGen::crossover and then EvaluatedGen::mutation return Ok
\* for the parents of one reproduction.
CrossoverOk(cfg) == check_weights(ParentWeights(cfg.crossover, NUM_CROSSOVER), NUM_CROSSOVER)
MutationOk(cfg) == check_weights(ParentWeights(cfg.mutation, NUM_MUTATION), NUM_MUTATION)

\* The evaluator operators one reproduction has invoked when an unwrap() in
\* the loop of next_gen panics: none when the crossover check fails, the
\* crossover operator when the mutation check of the first parent fails.
PanicCalls(cfg) ==
  IF ~CrossoverOk(cfg) THEN <<>>
  ELSE <<[op |-> "crossover", weights |-> ParentWeights(cfg.crossover, NUM_CROSSOVER),
          num |-> NUM_CROSSOVER]>>

\* selection, crossover and mutation: a child is a clone of a selected member
\* whose state the evaluator's operators have rewritten.
Children(mems) == {[mems[i] EXCEPT !.state = s] : i \in DOMAIN mems, s \in States}

\* while new_mems.len() < cfg.pop_size { ...; push(s1); push(s2) }: the
\* member lists the loop can end with; none when a weight check fails, the
\* unwrap() then panicking.
RECURSIVE Reproduce(_, _, _)
Reproduce(new_mems, mems, cfg) ==
  IF Len(new_mems) >= cfg.pop_size THEN {new_mems}
  ELSE IF ~(CrossoverOk(cfg) /\ MutationOk(cfg)) THEN {}
  ELSE UNION {Reproduce(new_mems \o <<s1, s2>>, mems, cfg) :
                s1 \in Children(mems), s2 \in Children(mems)}

\* Vec::dedup_by on equal states: the first of each run is kept.
RECURSIVE dedup_by(_, _, _)
dedup_by(s, i, out) ==
  IF i > Len(s) THEN out
  ELSE IF out # <<>> /\ out[Len(out)].state = s[i].state
       THEN dedup_by(s, i + 1, out)
       ELSE dedup_by(s, i + 1, Append(out, s[i]))

RemoveDuplicates(new_mems, cfg) ==
  IF cfg.duplicates = "DisallowDuplicates"
  THEN {dedup_by(t, 1, <<>>) : t \in SortUnstable(new_mems, "StateAsc")}
  ELSE {new_mems}

\* for _ in 0..NUM_TRIES { reproduce; remove duplicates }
RECURSIVE Tries(_, _, _, _)
Tries(new_mems, mems, cfg, k) ==
  IF k = 0 THEN {new_mems}
  ELSE UNION {Tries(d, mems, cfg, k - 1) :
                d \in UNION {RemoveDuplicates(r, cfg) : r \in Reproduce(new_mems, mems, cfg)}}

\* Whether the loop over NUM_TRIES can panic from new_mems with k tries left:
\* a try reproduces, and panics on a failed weight check, when the list is
\* short of pop_size; otherwise it only removes duplicates.
RECURSIVE TriesPanic(_, _, _)
TriesPanic(new_mems, cfg, k) ==
  /\ k > 0
  /\ IF Len(new_mems) < cfg.pop_size
     THEN ~(CrossoverOk(cfg) /\ MutationOk(cfg))
     ELSE \E d \in RemoveDuplicates(new_mems, cfg) : TriesPanic(d, cfg, k - 1)

\* Whether EvaluatedGen::next_gen can panic.
next_gen_panics(mems, stagnant, cfg) ==
  \E s \in survivors(mems, cfg) :
    \E f \in Refill(s, stagnant, cfg) : TriesPanic(f, cfg, NUM_TRIES)

\* EvaluatedGen::next_gen: the possible member lists of the next generation.
next_gen(mems, stagnant, cfg) ==
  UNION {UNION {Tries(f, mems, cfg, NUM_TRIES) : f \in Refill(s, stagnant, cfg)}
         : s \in survivors(mems, cfg)}

(***************************************************************************)
(* Evolver                                                                 *)
(***************************************************************************)
NoResult ==
  [kind |-> "none", genr |-> <<>>, unevaluated |-> UnevaluatedGenNew(<<>>),
   stagnant |-> FALSE, inputs |-> <<>>, calls |-> <<>>]

\* Evolver::new and Evolver::from_initial, whose initial states (given or
\* drawn from rand_state) are states[1..pop_size].
EvolverNew(eval, cfg, states) ==
  [phase |-> "run", cfg |-> cfg, eval |-> eval,
   genr |-> UnevaluatedGenNew([i \in DOMAIN states |-> MemberNew(states[i])]),
   gen_count |-> 0, stagnation_count |-> 0, last_fitness |-> F(0),
   res |-> NoResult]

\* relative_eq! / abs_diff_eq! of the best fitness and last_fitness.  The
\* fitness values of the model lie much farther apart than f64::EPSILON, so
\* the default relative comparison is equality.
StagnationEq(cond, a, b) ==
  IF cond.kind = "Default" THEN a = b
  ELSE FGe(cond.ep, FAbs(FSub(a, b)))

\* An early return that comes after the generation has been counted.
OnError_counted(e, genr, inputs) ==
  [e EXCEPT !.genr = genr, !.gen_count = @ + 1,
            !.res = [NoResult EXCEPT !.kind = "err", !.inputs = inputs]]

\* The early return of run_data when evaluate fails: the generation is left
\* as evaluate left it and nothing else of the Evolver has been touched.
OnError(e, genr, inputs) ==
  [e EXCEPT !.genr = genr,
            !.res = [NoResult EXCEPT !.kind = "err", !.inputs = inputs]]

\* A report that needs the counter to pass the configured count.
Stagnant_gt(policy, count) == policy.kind # "None" /\ count > policy.count

\* match self.cfg.stagnation: whether the iteration is reported stagnant,
\* given the counter as updated by the iteration.
Stagnant(policy, count) == policy.kind # "None" /\ count >= policy.count

\* A counter that a report leaves alone.
CountAfter_keep(policy, count) == count

\* self.stagnation_count after the match: OneShotAfter resets it when it
\* reports.
CountAfter(policy, count) ==
  IF policy.kind = "OneShotAfter" /\ count >= policy.count THEN 0 ELSE count

\* A swap that leaves both generations where they were.
SwapGenr_none(next, genr) == [next |-> next, genr |-> genr]

\* std::mem::swap(&mut next, &mut self.genr)
SwapGenr(next, genr) == [next |-> genr, genr |-> next]

\* The Evolver when next_gen panics inside run_data: the generation has been
\* evaluated in place and counted, nothing is returned (res.kind "panic")
\* and the generation is not replaced.
OnPanic(e, genr, count, best, inputs) ==
  [e EXCEPT !.genr = genr, !.gen_count = @ + 1,
            !.stagnation_count = CountAfter(e.cfg.stagnation, count),
            !.last_fitness = best,
            !.res = [NoResult EXCEPT !.kind = "panic", !.inputs = inputs,
                                     !.calls = PanicCalls(e.cfg)]]

\* Evolver::run_data: the possible states of the Evolver after the call,
\* with the value returned in res.
run_data(e, inputs) ==
  UNION {
    IF ~r.ok THEN {OnError(e, r.genr, inputs)}
    ELSE LET best == r.evaluated[1].fitness
             same == StagnationEq(e.cfg.stagnation_condition, best, e.last_fitness)
             count == IF same THEN e.stagnation_count + 1 ELSE 0
             stagnant == Stagnant(e.cfg.stagnation, count)
         IN  {[e EXCEPT
                 !.genr = SwapGenr(UnevaluatedGenNew(next), r.genr).genr,
                 !.gen_count = @ + 1,
                 !.stagnation_count = CountAfter(e.cfg.stagnation, count),
                 !.last_fitness = best,
                 !.res = [kind |-> "ok", genr |-> r.evaluated,
                          unevaluated |-> SwapGenr(UnevaluatedGenNew(next), r.genr).next,
                          stagnant |-> stagnant, inputs |-> inputs,
                          calls |-> <<>>]]
              : next \in next_gen(r.evaluated, stagnant, e.cfg)}
             \cup (IF next_gen_panics(r.evaluated, stagnant, e.cfg)
                   THEN {OnPanic(e, r.genr, count, best, inputs)} ELSE {})
    : r \in evaluate(e.genr, inputs, e.cfg, e.eval)}

(***************************************************************************)
(* The Evolver specification: an Evolver is built for some configuration   *)
(* and evaluator and run_data is called on it, with the same or with       *)
(* different inputs, up to MaxGen successful generations.                  *)
(***************************************************************************)
\* cfg.pop_size of the enumerated configurations.
PopSizes == {1, 2}

Evaluators == {"square", "recip", "partial"}
Inputs == {<<>>, <<0>>, <<1>>, <<0, 1>>}

Survivals ==
  {[kind |-> "TopProportion", prop |-> Rat(1, 2), q |-> 0],
   [kind |-> "SpeciesTopProportion", prop |-> Rat(1, 2), q |-> 0],
   [kind |-> "Youngest", prop |-> F(0), q |-> 0],
   [kind |-> "Tournament", prop |-> F(0), q |-> 1]}

Stagnations ==
  {[kind |-> "None", count |-> 0],
   [kind |-> "OneShotAfter", count |-> 1],
   [kind |-> "ContinuousAfter", count |-> 1]}

CfgOf(p, s, g, d, f, par) ==
  [pop_size |-> p, survival |-> s, stagnation |-> g,
   stagnation_condition |-> [kind |-> "Default", ep |-> F(0)],
   replacement |-> Rat(1, 2), duplicates |-> d,
   fitness_reduction |-> f, par_fitness |-> par,
   species |-> [kind |-> "None", target |-> 0],
   niching |-> [kind |-> "None", radius |-> F(0)],
   crossover |-> [kind |-> "Fixed", weights |-> <<1, 1>>],
   mutation |-> [kind |-> "Fixed", weights |-> <<1>>]]

\* The configurations: every survival, stagnation and duplicates setting
\* under sequential arithmetic-mean fitness, and every fitness setting under
\* one survival setting.
Cfgs ==
  {CfgOf(p, s, g, d, "ArithmeticMean", FALSE)
   : p \in PopSizes, s \in Survivals, g \in Stagnations,
     d \in {"AllowDuplicates", "DisallowDuplicates"}}
  \cup
  {CfgOf(p, [kind |-> "TopProportion", prop |-> Rat(1, 2), q |-> 0],
         [kind |-> "None", count |-> 0], "AllowDuplicates", f, par)
   : p \in PopSizes, f \in {"ArithmeticMean", "GeometricMean"}, par \in BOOLEAN}

InitEv ==
  /\ vm = NoVm
  /\ asmst = NoAsm
  /\ \E cfg \in Cfgs, eval \in Evaluators :
       \E states \in [1..cfg.pop_size -> States] : ev = EvolverNew(eval, cfg, states)

\* One call of run_data (or run, whose inputs are a single unit datum).
RunData ==
  /\ ev.gen_count < MaxGen
  /\ \E inputs \in Inputs : ev' \in run_data(ev, inputs)
  /\ UNCHANGED <<vm, asmst>>

NextEv == RunData

SpecEv == InitEv /\ [][NextEv]_vars

(***************************************************************************)
(* The reproduction specification: an Evolver of two members whose         *)
(* configuration fixes or adapts the crossover and mutation weights, with  *)
(* vectors of the declared length and sign and with vectors that are too   *)
(* short or hold a negative weight.  A panic ends the behaviour.           *)
(***************************************************************************)
\* Most generations a behaviour of the reproduction specification evaluates.
MaxRpGen == 2

CrossoverSettings ==
  {[kind |-> "Fixed", weights |-> <<1, 1>>], [kind |-> "Fixed", weights |-> <<1>>],
   [kind |-> "Fixed", weights |-> <<1, -1>>], [kind |-> "Adaptive", weights |-> <<>>]}

MutationSettings ==
  {[kind |-> "Fixed", weights |-> <<1>>], [kind |-> "Fixed", weights |-> <<>>],
   [kind |-> "Fixed", weights |-> <<-1>>], [kind |-> "Adaptive", weights |-> <<>>]}

RpCfgOf(s, d, c, m) ==
  [CfgOf(2, s, [kind |-> "None", count |-> 0], d, "ArithmeticMean", FALSE)
     EXCEPT !.crossover = c, !.mutation = m]

RpCfgs ==
  {RpCfgOf(s, d, c, m) :
     s \in {[kind |-> "TopProportion", prop |-> Rat(1, 2), q |-> 0],
            [kind |-> "Youngest", prop |-> F(0), q |-> 0]},
     d \in {"AllowDuplicates", "DisallowDuplicates"},
     c \in CrossoverSettings, m \in MutationSettings}

InitRp ==
  /\ vm = NoVm
  /\ asmst = NoAsm
  /\ \E cfg \in RpCfgs : \E states \in [1..cfg.pop_size -> States] :
       ev = EvolverNew("square", cfg, states)

\* One call of run_data on an Evolver that has not panicked.
RunRp ==
  /\ ev.gen_count < MaxRpGen
  /\ ev.res.kind # "panic"
  /\ \E inputs \in {<<0>>, <<1>>} : ev' \in run_data(ev, inputs)
  /\ UNCHANGED <<vm, asmst>>

NextRp == RunRp

SpecRp == InitRp /\ [][NextRp]_vars

(***************************************************************************)
(* The sampling specification: the closure HyperBuilder::add pushes, which *)
(* runs the iterations of an inner runner for sample_dur of wall time.     *)
(* Time is counted in ticks; an iteration and a reading of the clock take  *)
(* some ticks, possibly none.  ev holds the locals of the closure.         *)
(***************************************************************************)
\* Largest sample_dur, in ticks.
MaxSampleDur == 3
\* Longest inner iteration, in ticks.
MaxIterTicks == 2
\* Most inner iterations a behaviour runs.
MaxIters == 4

\* Option<RunResult>: None, and Some of the result of inner iteration n,
\* which started at tick start and returned at tick end.
None == [some |-> FALSE, n |-> 0, start |-> 0, end |-> 0]
Some(n, start, end) == [some |-> TRUE, n |-> n, start |-> start, end |-> end]

\* A closure that takes the run the loop stored last.
SampleResult_last(r1, r2) == r2

\* if let Some(mut r) = r1 { Some(Stats::from_run(&mut r)) } else { None }:
\* the run the returned statistics are made of.
SampleResult(r1, r2) == r1

\* let st = Instant::now(); let mut r1 = None; let mut r2 = None;
InitHy ==
  /\ vm = NoVm
  /\ asmst = NoAsm
  /\ \E dur \in 0..MaxSampleDur :
       ev = [phase |-> "sample", pc |-> "while", sample_dur |-> dur, st |-> 0,
             now |-> 0, r1 |-> None, r2 |-> None, iters |-> 0, result |-> None]

\* while (Instant::now() - st) < sample_dur { swap(&mut r1, &mut r2); ...
\* and, when the test fails, the statistics returned after the loop.
SampleWhile ==
  /\ ev.phase = "sample" /\ ev.pc = "while"
  /\ \E tick \in 0..1 :
       LET now == ev.now + tick
       IN  IF now - ev.st < ev.sample_dur
           THEN /\ ev.iters < MaxIters
                /\ ev' = [ev EXCEPT !.now = now, !.pc = "run_iter",
                                    !.r1 = ev.r2, !.r2 = ev.r1]
           ELSE ev' = [ev EXCEPT !.now = now, !.pc = "done",
                                 !.result = SampleResult(ev.r1, ev.r2)]
  /\ UNCHANGED <<vm, asmst>>

\* r2 = Some(runner.run_iter().unwrap()): the iteration takes some ticks and
\* returns a result, or fails and the unwrap panics.
SampleRunIter ==
  /\ ev.phase = "sample" /\ ev.pc = "run_iter"
  /\ \/ \E ticks \in 0..MaxIterTicks :
          ev' = [ev EXCEPT !.now = ev.now + ticks, !.pc = "while",
                           !.iters = ev.iters + 1,
                           !.r2 = Some(ev.iters + 1, ev.now, ev.now + ticks)]
     \/ ev' = [ev EXCEPT !.pc = "panic"]
  /\ UNCHANGED <<vm, asmst>>

NextHy == SampleWhile \/ SampleRunIter

SpecHy == InitHy /\ [][NextHy]_vars

(***************************************************************************)
(* The LGP operator specification: two LgpStates whose programs            *)
(* (ops_unopt) are rewritten by LgpEvaluator::mutate and                   *)
(* LgpEvaluator::crossover.  An Op is one of a few values, the operators   *)
(* looking only at positions.  A panic ends the behaviour.                 *)
(***************************************************************************)
\* Largest cfg.max_code.
MaxLgCode == 4

\* The values of an Op (what rand_op and the micro-mutation can produce).
LgOps == {0, 1}

\* slice::swap(i, j), positions counted from 1.
SwapAt(s, i, j) == [s EXCEPT ![i] = s[j], ![j] = s[i]]

\* mutate_swap: two positions drawn from 0..len are swapped.
mutate_swap(s) == {SwapAt(s, i, j) : i, j \in DOMAIN s}

\* mutate_insert: for i in st..en { s.swap(i, i + 1) } moves the element at
\* st to en, st drawn from 0..len and en from st..len.
mutate_insert(s) ==
  UNION {
    {[k \in DOMAIN s |->
        IF k < st \/ k > en THEN s[k] ELSE IF k = en THEN s[st] ELSE s[k + 1]]
     : en \in st..Len(s)}
    : st \in DOMAIN s}

\* mutate_reset: one element is replaced by v.
mutate_reset(s, v) == {[s EXCEPT ![i] = v] : i \in DOMAIN s}

\* mutate_scramble: s[st..=en] is shuffled.
mutate_scramble(s) ==
  {t \in {[k \in DOMAIN s |-> s[p[k]]] : p \in Perms(Len(s))} :
     \E st \in DOMAIN s : \E en \in st..Len(s) :
       \A k \in DOMAIN s : (k < st \/ k > en) => t[k] = s[k]}

\* Vec::insert(index, op), index counted from 0.
InsertAt(s, index, op) ==
  SubSeq(s, 1, index) \o <<op>> \o SubSeq(s, index + 1, Len(s))

\* Vec::remove(index), index counted from 0.
RemoveAt(s, index) == SubSeq(s, 1, index) \o SubSeq(s, index + 2, Len(s))

\* An insertion that does not look at max_code.
LgMutateInsert_unbounded(s, max_code) ==
  {InsertAt(s, index, op) : index \in 0..(Len(s) - 1), op \in LgOps}

\* LgpEvaluator::mutate, index 4: a random op is inserted at a position drawn
\* from 0..code_size when code_size < max_code.
LgMutateInsert(s, max_code) ==
  IF Len(s) < max_code
  THEN {InsertAt(s, index, op) : index \in 0..(Len(s) - 1), op \in LgOps}
  ELSE {s}

\* LgpEvaluator::mutate: the programs s.ops_unopt can hold after the call
\* with index idx; the call returns at once when the drawn number exceeds
\* the rate.
LgMutate(s, idx, max_code) ==
  {s} \cup
  CASE idx = 0 -> mutate_swap(s)
    [] idx = 1 -> mutate_insert(s)
    [] idx = 2 -> UNION {mutate_reset(s, op) : op \in LgOps}
    [] idx = 3 -> mutate_scramble(s)
    [] idx = 4 -> LgMutateInsert(s, max_code)
    [] idx = 5 -> IF Len(s) > 1 THEN {RemoveAt(s, index) : index \in 0..(Len(s) - 1)}
                  ELSE {s}
    [] OTHER -> UNION {mutate_reset(s, op) : op \in LgOps}

\* (0..s1.len()).choose_multiple(&mut r, k): k distinct points, or all of
\* them when there are fewer.
XPoints(len, k) ==
  {X \in SUBSET (0..(len - 1)) : Cardinality(X) = Min(k, len)}

\* The sorted vector of the drawn points and pt.
RECURSIVE SortedWith(_, _)
SortedWith(X, pts) ==
  IF X = {} /\ pts = <<>> THEN <<>>
  ELSE LET lo == IF X = {} THEN pts[1]
                 ELSE IF pts = <<>> THEN CHOOSE x \in X : \A y \in X : x <= y
                 ELSE Min(pts[1], CHOOSE x \in X : \A y \in X : x <= y)
       IN  IF X # {} /\ lo \in X
           THEN <<lo>> \o SortedWith(X \ {lo}, pts)
           ELSE <<lo>> \o SortedWith(X, Tail(pts))

\* for i in st..en { swap(&mut s1[i], &mut s2[i]) } from index i (counted
\* from 0): an index past the end of either slice panics.
RECURSIVE SwapRange(_, _, _, _)
SwapRange(s1, s2, i, en) ==
  IF i >= en THEN [s1 |-> s1, s2 |-> s2, panicked |-> FALSE]
  ELSE IF i >= Len(s1) \/ i >= Len(s2) THEN [s1 |-> s1, s2 |-> s2, panicked |-> TRUE]
  ELSE SwapRange([s1 EXCEPT ![i + 1] = s2[i + 1]], [s2 EXCEPT ![i + 1] = s1[i + 1]],
                 i + 1, en)

\* for &[st, en] in xpoints.array_chunks::<2>(): the pairs of the sorted
\* vector pts from position c on, a last odd element being left out.
RECURSIVE SwapChunks(_, _, _, _)
SwapChunks(s1, s2, pts, c) ==
  IF c + 1 > Len(pts) THEN [s1 |-> s1, s2 |-> s2, panicked |-> FALSE]
  ELSE LET r == SwapRange(s1, s2, pts[c], pts[c + 1])
       IN  IF r.panicked THEN r ELSE SwapChunks(r.s1, r.s2, pts, c + 2)

\* A crossover whose points are drawn below the shorter length.
crossover_kpx_min(s1, s2, k) ==
  {SwapChunks(s1, s2, SortedWith(X, <<Min(Len(s1), Len(s2))>>), 1)
   : X \in XPoints(Min(Len(s1), Len(s2)), k)}

\* crossover_kpx: k points drawn from 0..s1.len(), then crossover_kpx_pts,
\* which adds min(s1.len(), s2.len()) to the points and sorts them.
crossover_kpx(s1, s2, k) ==
  {SwapChunks(s1, s2, SortedWith(X, <<Min(Len(s1), Len(s2))>>), 1)
   : X \in XPoints(Len(s1), k)}

\* LgpEvaluator::crossover with index idx.
LgCrossover(s1, s2, idx) ==
  IF idx = 0 THEN {[s1 |-> s1, s2 |-> s2, panicked |-> FALSE]}
  ELSE crossover_kpx(s1, s2, 2)

NoCall == [kind |-> "none", idx |-> 0]

\* Two states whose programs hold between 1 and max_code instructions.
InitLg ==
  /\ vm = NoVm
  /\ asmst = NoAsm
  /\ \E max_code \in 1..MaxLgCode :
       \E s1, s2 \in {t \in SeqsUpTo({0}, max_code) : Len(t) >= 1} :
         ev = [phase |-> "lgp", max_code |-> max_code, s1 |-> s1, s2 |-> s2,
               panicked |-> FALSE, call |-> NoCall]

\* eval.mutate(&mut s.state, rate, idx) on the first or the second state.
LgMutateCall ==
  /\ ev.phase = "lgp" /\ ~ev.panicked
  /\ \E idx \in 0..6 :
       \/ \E t \in LgMutate(ev.s1, idx, ev.max_code) :
            ev' = [ev EXCEPT !.s1 = t, !.call = [kind |-> "mutate", idx |-> idx]]
       \/ \E t \in LgMutate(ev.s2, idx, ev.max_code) :
            ev' = [ev EXCEPT !.s2 = t, !.call = [kind |-> "mutate", idx |-> idx]]
  /\ UNCHANGED <<vm, asmst>>

\* eval.crossover(&mut s1.state, &mut s2.state, idx).
LgCrossoverCall ==
  /\ ev.phase = "lgp" /\ ~ev.panicked
  /\ \E idx \in 0..1 : \E r \in LgCrossover(ev.s1, ev.s2, idx) :
       ev' = [ev EXCEPT !.s1 = r.s1, !.s2 = r.s2, !.panicked = r.panicked,
                        !.call = [kind |-> "crossover", idx |-> idx]]
  /\ UNCHANGED <<vm, asmst>>

NextLg == LgMutateCall \/ LgCrossoverCall

SpecLg == InitLg /\ [][NextLg]_vars

(***************************************************************************)
(* The speciation specification: an Evolver whose configuration may ask    *)
(* for a target number of species and for fitness sharing is built from    *)
(* given initial states and run for up to MaxSpGen generations.            *)
(***************************************************************************)
\* Most generations a behaviour of the speciation specification evaluates.
MaxSpGen == 2

\* The states a caller hands to from_initial.
InitialStates == 0..2

\* The initial state vectors: one representative of each multiset of states.
InitialVecs(p) ==
  {v \in [1..p -> InitialStates] : \A i \in 1..(p - 1) : v[i] <= v[i + 1]}

SpeciesSettings ==
  {[kind |-> "None", target |-> 0]}
  \cup {[kind |-> "TargetNumber", target |-> t] : t \in 1..3}

SpCfgOf(p, prop, sp, n) ==
  [CfgOf(p, [kind |-> "TopProportion", prop |-> prop, q |-> 0],
         [kind |-> "None", count |-> 0], "AllowDuplicates", "ArithmeticMean", FALSE)
     EXCEPT !.species = sp, !.niching = n]

\* The configurations: three members that all survive, under every species
\* setting with and without fitness sharing, and two members of which one
\* survives and has children, under speciation.
SpCfgs ==
  {SpCfgOf(3, F(1), sp, n)
   : sp \in SpeciesSettings,
     n \in {[kind |-> "None", radius |-> F(0)], [kind |-> "SharedFitness", radius |-> F(1)]}}
  \cup
  {SpCfgOf(2, Rat(1, 2), [kind |-> "TargetNumber", target |-> t],
           [kind |-> "None", radius |-> F(0)])
   : t \in 1..2}

\* Five members in a row, each at distance 1 from the next, and two species
\* asked for.
LineCfg ==
  SpCfgOf(5, F(1), [kind |-> "TargetNumber", target |-> 2],
          [kind |-> "None", radius |-> F(0)])
LineStates == <<0, 1, 2, 3, 4>>

InitSp ==
  /\ vm = NoVm
  /\ asmst = NoAsm
  /\ \/ \E cfg \in SpCfgs : \E states \in InitialVecs(cfg.pop_size) :
          ev = EvolverNew("linear", cfg, states)
     \/ ev = EvolverNew("linear", LineCfg, LineStates)

\* One call of run.
RunSp ==
  /\ ev.gen_count < MaxSpGen
  /\ ev' \in run_data(ev, <<0>>)
  /\ UNCHANGED <<vm, asmst>>

NextSp == RunSp

SpecSp == InitSp /\ [][NextSp]_vars

(***************************************************************************)
(* The stagnation specification: an Evolver with one member, which always  *)
(* survives, is run for up to MaxStGen generations on inputs that may      *)
(* change its fitness from one call to the next.                           *)
(***************************************************************************)
\* Most generations a behaviour of the stagnation specification evaluates.
MaxStGen == 4

StStagnations ==
  {[kind |-> "None", count |-> 0]}
  \cup {[kind |-> "OneShotAfter", count |-> n] : n \in 1..2}
  \cup {[kind |-> "ContinuousAfter", count |-> n] : n \in 0..2}

\* The configurations: every stagnation policy under the default comparison
\* and under StagnationCondition::Epsilon(1.0).
StCfgs ==
  {[CfgOf(1, [kind |-> "TopProportion", prop |-> Rat(1, 2), q |-> 0], g,
          "AllowDuplicates", "ArithmeticMean", FALSE)
      EXCEPT !.stagnation_condition = c]
   : g \in StStagnations,
     c \in {[kind |-> "Default", ep |-> F(0)], [kind |-> "Epsilon", ep |-> F(1)]}}

InitSt ==
  /\ vm = NoVm
  /\ asmst = NoAsm
  /\ \E cfg \in StCfgs, state \in States : ev = EvolverNew("square", cfg, <<state>>)

\* One call of run_data.
RunSt ==
  /\ ev.gen_count < MaxStGen
  /\ \E inputs \in {<<0>>, <<1>>} : ev' \in run_data(ev, inputs)
  /\ UNCHANGED <<vm, asmst>>

NextSt == RunSt

SpecSt == InitSt /\ [][NextSt]_vars

(***************************************************************************)
(* Claims about the Evolver (under SpecEv).                                *)
(***************************************************************************)
\* C7: whenever run_data can be called, on the initial generation and on
\* every generation next_gen has produced, the current generation has
\* exactly cfg.pop_size members.
C7_PopSizeAtStart == Len(ev.genr.mems) = ev.cfg.pop_size

\* C8: with DisallowDuplicates, the evaluated generation a successful
\* run_data returns holds no two members with equal state, in the first
\* iteration as in every later one.
C8_NoDuplicateStates ==
  (ev.cfg.duplicates = "DisallowDuplicates" /\ ev.res.kind = "ok")
    => \A i, j \in DOMAIN ev.res.genr :
         i # j => ev.res.genr[i].state # ev.res.genr[j].state

\* C9 as stated: a run_data call that fails leaves the Evolver exactly as it
\* was: the generation (members with all their fields and their order,
\* species info, DistCache), gen_count, stagnation_count and last_fitness.
C9_FailureLeavesEvolverUnchanged ==
  [][ev'.res.kind = "err" =>
       /\ ev'.genr = ev.genr
       /\ ev'.gen_count = ev.gen_count
       /\ ev'.stagnation_count = ev.stagnation_count
       /\ ev'.last_fitness = ev.last_fitness]_vars

\* A generation with the stored fitness of its members blanked.
BlankFitness(genr) ==
  [genr EXCEPT !.mems = [i \in DOMAIN genr.mems |-> [genr.mems[i] EXCEPT !.fitness = F(0)]]]

\* What evaluate, the one part of run_data that reads the current generation,
\* can return for it and leave of it, the fitness stored by a failed
\* evaluation aside.
Attempts(genr, inputs) ==
  {IF r.ok THEN r ELSE [r EXCEPT !.genr = BlankFitness(r.genr)]
     : r \in evaluate(genr, inputs, ev.cfg, ev.eval)}

\* C9 amended: a run_data call that fails changes nothing but the stored
\* fitness of members of the current generation: their state, selection
\* fitness, species, age and order, the species info, the DistCache,
\* gen_count, stagnation_count and last_fitness are as before, and a retry
\* with any inputs evaluates the generation as the first attempt would have.
C9_FailureKeepsAllButFitness ==
  [][ev'.res.kind = "err" =>
       /\ BlankFitness(ev'.genr) = BlankFitness(ev.genr)
       /\ ev'.gen_count = ev.gen_count
       /\ ev'.stagnation_count = ev.stagnation_count
       /\ ev'.last_fitness = ev.last_fitness
       /\ \A inputs \in Inputs :
            Attempts(ev'.genr, inputs) = Attempts(ev.genr, inputs)]_vars

\* C9 witness: the first call failed at the second member's fitness call,
\* after the first member's fitness had been stored.
C9_Witness ==
  /\ ev.res.kind = "err" /\ ev.gen_count = 0
  /\ Len(ev.genr.mems) = 2
  /\ ev.genr.mems[1].fitness # F(0)
  /\ ~multi_fitness(ev.eval, ev.genr.mems[2].state, ev.res.inputs,
                    ev.cfg.fitness_reduction).ok

\* C10: when run_data succeeds, every member of the evaluated generation has
\* a fitness that is >= 0 and finite, and no member of the generation it
\* evaluated has a failing fitness call or a reduced fitness that is
\* negative, NaN or infinite on the inputs of the call.
C10_FitnessValidOrFailure ==
  ev.res.kind = "ok" =>
    /\ \A i \in DOMAIN ev.res.genr :
         FGe(ev.res.genr[i].fitness, F(0)) /\ is_finite(ev.res.genr[i].fitness)
    /\ \A i \in DOMAIN ev.res.unevaluated.mems :
         LET f == multi_fitness(ev.eval, ev.res.unevaluated.mems[i].state,
                                ev.res.inputs, ev.cfg.fitness_reduction)
         IN  f.ok /\ FGe(f.v, F(0)) /\ is_finite(f.v)

\* C10 witness: a generation of two members was evaluated successfully, on
\* two inputs, and its members have different positive fitnesses.
C10_Witness ==
  /\ ev.res.kind = "ok" /\ ev.gen_count = 1
  /\ Len(ev.res.inputs) = 2
  /\ Len(ev.res.genr) = 2
  /\ FLt(F(0), ev.res.genr[2].fitness)
  /\ FLt(ev.res.genr[2].fitness, ev.res.genr[1].fitness)

\* The least whole number that is at least n / d, for d > 0 and n >= 0.
Ceiling(n, d) == CHOOSE k \in 0..n : k * d >= n /\ (k - 1) * d < n

\* The number of random members C18 gives for a stagnant iteration.
ClaimedRefill(pop_size, len, prop) ==
  IF len >= pop_size THEN 0 ELSE Ceiling((pop_size - len) * prop.n, prop.d)

\* A generation of a hundred members and the configuration of the example:
\* TopProportion(0.1) and ReplaceChildren(0.5).
HundredMems == [i \in 1..100 |-> MemberNew(0)]
HundredCfg ==
  CfgOf(100, [kind |-> "TopProportion", prop |-> Rat(1, 10), q |-> 0],
        [kind |-> "ContinuousAfter", count |-> 100], "AllowDuplicates",
        "ArithmeticMean", FALSE)

\* C18: the next generation a successful iteration leaves is what reproduction and
\* deduplication make of the survivors followed by exactly
\* ceil((pop_size - |survivors|) * prop) fresh members (none when the
\* survivors number pop_size or more) when the iteration is stagnant, and of
\* the survivors alone when it is not; with pop_size 100, TopProportion(0.1)
\* and ReplaceChildren(0.5) there are 10 survivors and 45 fresh members.
C18_RefillCount ==
  /\ ev.res.kind = "ok" =>
       \E s \in survivors(ev.res.genr, ev.cfg) :
         LET k == IF ev.res.stagnant
                  THEN ClaimedRefill(ev.cfg.pop_size, Len(s), ev.cfg.replacement)
                  ELSE 0
         IN  \E r \in [1..k -> States] :
               ev.genr.mems \in
                 Tries(s \o [i \in 1..k |-> MemberNew(r[i])], ev.res.genr, ev.cfg, NUM_TRIES)
  /\ \A s \in survivors(HundredMems, HundredCfg) :
       /\ Len(s) = 10
       /\ RefillNum(Len(s), TRUE, HundredCfg) = 45
       /\ RefillNum(Len(s), FALSE, HundredCfg) = 0

\* C18 witness: after a stagnant iteration with pop_size 2 and one survivor
\* the next generation is the survivor and one fresh member, and nothing was
\* reproduced.
C18_Witness ==
  /\ ev.res.kind = "ok" /\ ev.res.stagnant
  /\ ev.cfg.pop_size = 2 /\ ev.cfg.survival.kind = "TopProportion"
  /\ Len(ev.genr.mems) = 2
  /\ ev.genr.mems[1].age = 1
  /\ ev.genr.mems[2] \in {MemberNew(st) : st \in States}
  /\ ev.genr.mems[2].state # ev.genr.mems[1].state

\* The successful outcomes of evaluating the current generation on the
\* inputs with par_fitness set to par.
Evaluations(inputs, par) ==
  {r \in evaluate(ev.genr, inputs, [ev.cfg EXCEPT !.par_fitness = par], ev.eval) : r.ok}

\* The successful outcomes of computing the fitness of the current
\* generation's members on the inputs with par_fitness set to par.
Computed(inputs, par) ==
  {c \in ComputeFitness(ev.genr.mems, ev.eval, inputs, [ev.cfg EXCEPT !.par_fitness = par]) :
     c.ok}

C25_TournamentWins ==
  (ev.res.kind = "ok" /\ ev.cfg.survival.kind = "Tournament") =>
    \A o \in Tournaments(ev.res.genr, ev.cfg.survival.q) :
      /\ \A i \in DOMAIN ev.res.genr :
           /\ Cardinality(o.opps[i]) = Min(ev.cfg.survival.q, Len(ev.res.genr))
           /\ o.wins[i] =
                Cardinality({j \in o.opps[i] :
                               FLt(ev.res.genr[j].fitness, ev.res.genr[i].fitness)})
      /\ \A k, l \in DOMAIN o.ranked : k < l => o.ranked[k][1] >= o.ranked[l][1]

\* C30: under Survival::Youngest and Survival::Tournament(q), with pop_size
\* at least 2 and an evaluated generation of pop_size members, a
\* non-stagnant iteration leaves room for a reproduced child: the survivors
\* number less than pop_size and the next generation is not the survivors
\* alone.
C30_ChildReproduced ==
  (/\ ev.res.kind = "ok" /\ ~ev.res.stagnant
   /\ ev.cfg.survival.kind \in {"Youngest", "Tournament"}
   /\ ev.cfg.pop_size >= 2 /\ Len(ev.res.genr) = ev.cfg.pop_size) =>
    /\ \A s \in survivors(ev.res.genr, ev.cfg) : Len(s) < ev.cfg.pop_size
    /\ ev.genr.mems \notin survivors(ev.res.genr, ev.cfg)

(***************************************************************************)
(* Claims about evaluation with speciation and niching (under SpecSp).     *)
(***************************************************************************)
\* The species tags carried by the members.
TagsOf(mems) == {mems[i].species : i \in DOMAIN mems}

\* Whether the last call succeeded under Species::TargetNumber.
Speciated == ev.res.kind = "ok" /\ ev.cfg.species.kind = "TargetNumber"

\* C11: after a successful run, the members of the evaluated generation
\* returned are in non-increasing order of raw fitness, whatever the niching
\* and speciation settings and whatever their selection fitness.
C11_SortedByFitness ==
  ev.res.kind = "ok" =>
    \A i \in 1..(Len(ev.res.genr) - 1) :
      FGe(ev.res.genr[i].fitness, ev.res.genr[i + 1].fitness)

\* C11 witness: under speciation and fitness sharing, a returned generation
\* in which a member of lower fitness has the higher selection fitness.
C11_Witness ==
  /\ Speciated /\ ev.cfg.niching.kind = "SharedFitness"
  /\ \E i, j \in DOMAIN ev.res.genr :
       /\ FLt(ev.res.genr[j].fitness, ev.res.genr[i].fitness)
       /\ FLt(ev.res.genr[i].selection_fitness, ev.res.genr[j].selection_fitness)

\* The radius search of the last call ended because its bracket closed (it
\* was closed from the start, or the last count was not the target) rather
\* than on a count equal to the target.
BracketClosed ==
  \/ DistMax(ev.res.unevaluated.dists) = F(0)
  \/ ev.res.unevaluated.species.num # ev.cfg.species.target

\* C12: with Species::TargetNumber(T), after a successful evaluate the
\* members of the evaluated generation carry exactly T distinct species
\* tags, unless the radius search stopped because its bracket closed.
C12_TargetNumberOrClosed ==
  Speciated =>
    \/ Cardinality(TagsOf(ev.res.genr)) = ev.cfg.species.target
    \/ BracketClosed

\* C13: after a successful evaluate with speciation, in every generation of
\* a run, every species tag present is the tag of a member whose cached
\* distance to every other member with that tag is at most the final
\* species.radius.
C13_SpeciesWithinRadius ==
  Speciated =>
    LET g == ev.res.unevaluated
    IN  \A t \in TagsOf(g.mems) :
          \E i \in DOMAIN g.mems :
            /\ g.mems[i].species = t
            /\ \A j \in DOMAIN g.mems :
                 g.mems[j].species = t => FLe(DistAt(g.dists, i, j), g.species.radius)

\* Clustering as the specification words it: the first member, in fitness
\* order, that has no species founds the next one, and the other members
\* without a species within the radius of that seed join it.
RECURSIVE StableTags(_, _, _, _, _)
StableTags(dists, radius, ids, i, next_id) ==
  IF i > Len(ids) THEN ids
  ELSE IF ids[i] # NO_SPECIES THEN StableTags(dists, radius, ids, i + 1, next_id)
  ELSE StableTags(dists, radius,
                  [j \in DOMAIN ids |->
                     IF j = i \/ (ids[j] = NO_SPECIES /\ FLe(DistAt(dists, i, j), radius))
                     THEN next_id ELSE ids[j]],
                  i + 1, next_id + 1)

\* C14: when the members of a generation arrive without species and the
\* radius search runs, the tags evaluate leaves are those of clustering in
\* fitness order at the final radius: a function of the distances, the
\* fitness order and the radius alone.
C14_StableSpeciation ==
  (Speciated /\ ev.gen_count = 1 /\ DistMax(ev.res.unevaluated.dists) # F(0)) =>
    LET g == ev.res.unevaluated
    IN  [i \in DOMAIN g.mems |-> g.mems[i].species]
          = StableTags(g.dists, g.species.radius, [i \in DOMAIN g.mems |-> NO_SPECIES], 1, 1)

\* C15: with Species::TargetNumber, after every successful evaluate every
\* member of the evaluated generation has a species other than 0, whatever
\* the distances; with Species::None the members keep species 0.
C15_SpeciesAssigned ==
  ev.res.kind = "ok" =>
    \A i \in DOMAIN ev.res.genr :
      (ev.res.genr[i].species # NO_SPECIES) <=> (ev.cfg.species.kind = "TargetNumber")

(***************************************************************************)
(* Claims about stagnation (under SpecSt).                                 *)
(***************************************************************************)
\* A step that is a successful call of run_data.
Iteration == ev'.res.kind = "ok" /\ ev'.gen_count = ev.gen_count + 1

\* The best fitness of the iteration equals, under the configured
\* comparison, the best fitness of the iteration before (last_fitness, which
\* is 0.0 before the first iteration).
Unchanged ==
  StagnationEq(ev.cfg.stagnation_condition, ev'.res.genr[1].fitness, ev.last_fitness)

\* The counter of consecutive unchanged iterations as the iteration updates
\* it, before any reset.
Counted == IF Unchanged THEN ev.stagnation_count + 1 ELSE 0

\* The previous call was a successful one that reported stagnation.
JustReported == ev.res.kind = "ok" /\ ev.res.stagnant

\* What C16 says of an iteration under OneShotAfter(N), N >= 1, except for
\* what follows a report: stagnant is reported exactly when the counter
\* reaches N, and the counter is reset to 0 in that same iteration.
OneShotReport ==
  /\ ev'.res.stagnant <=> Counted = ev.cfg.stagnation.count
  /\ ev'.stagnation_count = IF ev'.res.stagnant THEN 0 ELSE Counted

OneShot == ev.cfg.stagnation.kind = "OneShotAfter" /\ ev.cfg.stagnation.count >= 1

\* C16 as stated: under OneShotAfter(N) with N >= 1, stagnant is reported
\* exactly in the iteration in which the counter of consecutive unchanged
\* iterations reaches N, the counter is reset to 0 in that iteration, and
\* stagnant is false in the iteration after a report.
C16_OneShotFalseAfterReport ==
  [][(OneShot /\ Iteration) =>
       /\ OneShotReport
       /\ JustReported => ~ev'.res.stagnant]_vars

\* C16 amended: under OneShotAfter(N) with N >= 1, stagnant is reported
\* exactly in the iteration in which the counter of consecutive unchanged
\* iterations reaches N and the counter is reset to 0 in that iteration, so
\* the stored counter stays below N; the iteration after a report is
\* reported stagnant iff N = 1 and it is unchanged too.
C16_OneShotReportsAtN ==
  /\ [](OneShot => ev.stagnation_count < ev.cfg.stagnation.count)
  /\ [][(OneShot /\ Iteration) =>
          /\ OneShotReport
          /\ JustReported =>
               (ev'.res.stagnant <=> (ev.cfg.stagnation.count = 1 /\ Unchanged))]_vars

\* C16 witness: under OneShotAfter(2), a report in the fourth iteration.
C16_Witness ==
  /\ ev.cfg.stagnation = [kind |-> "OneShotAfter", count |-> 2]
  /\ ev.res.kind = "ok" /\ ev.res.stagnant
  /\ ev.gen_count = 4 /\ ev.stagnation_count = 0

\* What C17 says of an iteration, except for what follows a change of the
\* best fitness: under ContinuousAfter(N) stagnant is reported iff the
\* updated counter is >= N, the counter grows by one in an unchanged
\* iteration and drops to 0 otherwise; under None nothing is reported.
ContinuousReport ==
  /\ ev.cfg.stagnation.kind = "ContinuousAfter" =>
       /\ ev'.res.stagnant <=> ev'.stagnation_count >= ev.cfg.stagnation.count
       /\ ev'.stagnation_count = Counted
  /\ ev.cfg.stagnation.kind = "None" => ~ev'.res.stagnant

\* C17 as stated: ContinuousReport, and under ContinuousAfter(N) an
\* iteration whose best fitness differs is not reported stagnant.
C17_ContinuousFalseAfterChange ==
  [][Iteration =>
       /\ ContinuousReport
       /\ (ev.cfg.stagnation.kind = "ContinuousAfter" /\ ~Unchanged)
            => ~ev'.res.stagnant]_vars

\* C17 amended: under ContinuousAfter(N) an iteration is reported stagnant
\* iff the updated counter is >= N; the counter grows by one in each
\* unchanged iteration and drops to 0 in an iteration whose best fitness
\* differs, which is reported stagnant iff N = 0; under None no iteration
\* is reported stagnant.
C17_ContinuousReportsFromN ==
  [][Iteration =>
       /\ ContinuousReport
       /\ (ev.cfg.stagnation.kind = "ContinuousAfter" /\ ~Unchanged)
            => (ev'.res.stagnant <=> ev.cfg.stagnation.count = 0)]_vars

\* C17 witness: under ContinuousAfter(2), a third unchanged iteration in a
\* row, reported stagnant like the one before it.
C17_Witness ==
  /\ ev.cfg.stagnation = [kind |-> "ContinuousAfter", count |-> 2]
  /\ ev.res.kind = "ok" /\ ev.res.stagnant
  /\ ev.stagnation_count = 3

(***************************************************************************)
(* Claims about reproduction (under SpecRp).                               *)
(***************************************************************************)
\* C23: when a parent's crossover or mutation weight vector fails the check,
\* a call of run_data that reproduces invokes no evaluator operator with
\* that vector, installs no next generation (a successful call made its
\* next generation without reproducing, and otherwise the Evolver holds the
\* generation the call evaluated), and returns a failure to its caller: it
\* never ends in a panic.
C23_InvalidWeightsFail ==
  ~(CrossoverOk(ev.cfg) /\ MutationOk(ev.cfg)) =>
    /\ \A i \in DOMAIN ev.res.calls :
         check_weights(ev.res.calls[i].weights, ev.res.calls[i].num)
    /\ ev.res.kind = "ok" =>
         ev.genr.mems \in next_gen(ev.res.genr, ev.res.stagnant, ev.cfg)
    /\ ev.res.kind = "panic" =>
         \E r \in evaluate(ev.genr, ev.res.inputs, ev.cfg, ev.eval) :
           r.ok /\ r.genr = ev.genr
    /\ ev.res.kind # "panic"

(***************************************************************************)
(* Claims about the sampling closure of the hyper-evolver (under SpecHy).  *)
(***************************************************************************)
\* C24: an inner iteration starts only while the elapsed time is below
\* sample_dur; the returned statistics are those of the iteration before
\* the last executed one, which returned within the budget, never those of
\* the last executed one; and nothing is returned when fewer than two
\* iterations were executed.
C24_LastCompleteIteration ==
  /\ ev.pc = "run_iter" => ev.now - ev.st < ev.sample_dur
  /\ ev.pc \in {"while", "done"} =>
       /\ ev.r2.some = (ev.iters >= 1)
       /\ ev.r2.some => ev.r2.n = ev.iters /\ ev.r2.start - ev.st < ev.sample_dur
  /\ ev.pc = "done" =>
       /\ ev.iters < 2 => ~ev.result.some
       /\ ev.iters >= 2 =>
            /\ ev.result.some
            /\ ev.result.n = ev.iters - 1
            /\ ev.result.end - ev.st < ev.sample_dur
       /\ ev.result.some => ev.result.n # ev.iters

\* C24 witness: the loop has ended after three iterations, the last of which
\* started within the budget and returned after it, and the statistics are
\* those of the second.
C24_Witness ==
  /\ ev.pc = "done" /\ ev.iters = 3
  /\ ev.r2.n = 3 /\ ev.r2.start - ev.st < ev.sample_dur
  /\ ev.r2.end - ev.st > ev.sample_dur
  /\ ev.result.some /\ ev.result.n = 2

(***************************************************************************)
(* Claims about the LGP operators (under SpecLg).                          *)
(***************************************************************************)
\* C26: from programs of 1 to max_code instructions, after any calls of
\* mutate (indices 0..6) and crossover (indices 0..1) every program still
\* has 1 to max_code instructions; a call changes a length by one at most,
\* only mutation 4 lengthens a program, and only when it was shorter than
\* max_code, only mutation 5 shortens one, and only when it was longer than
\* one instruction.
C26_LengthBounds ==
  /\ [](/\ 1 <= Len(ev.s1) /\ Len(ev.s1) <= ev.max_code
        /\ 1 <= Len(ev.s2) /\ Len(ev.s2) <= ev.max_code)
  /\ [][/\ Len(ev'.s1) > Len(ev.s1) =>
             /\ ev'.call = [kind |-> "mutate", idx |-> 4]
             /\ Len(ev'.s1) = Len(ev.s1) + 1 /\ Len(ev.s1) < ev.max_code
        /\ Len(ev'.s2) > Len(ev.s2) =>
             /\ ev'.call = [kind |-> "mutate", idx |-> 4]
             /\ Len(ev'.s2) = Len(ev.s2) + 1 /\ Len(ev.s2) < ev.max_code
        /\ Len(ev'.s1) < Len(ev.s1) =>
             /\ ev'.call = [kind |-> "mutate", idx |-> 5]
             /\ Len(ev'.s1) = Len(ev.s1) - 1 /\ Len(ev.s1) > 1
        /\ Len(ev'.s2) < Len(ev.s2) =>
             /\ ev'.call = [kind |-> "mutate", idx |-> 5]
             /\ Len(ev'.s2) = Len(ev.s2) - 1 /\ Len(ev.s2) > 1]_vars

\* C26 witness: after a crossover at index 1 that exchanged instructions,
\* the first program is at max_code and the second holds one instruction.
C26_Witness ==
  /\ ev.phase = "lgp" /\ ~ev.panicked
  /\ ev.call = [kind |-> "crossover", idx |-> 1]
  /\ ev.max_code >= 3 /\ Len(ev.s1) = ev.max_code /\ Len(ev.s2) = 1
  /\ ev.s1[1] = 1 /\ ev.s2[1] = 0

\* C28: crossover with index 1 on two programs of different lengths never
\* indexes past the end of either program: no call panics.
C28_CrossoverInBounds == ev.phase = "lgp" => ~ev.panicked

====
